---- MODULE Spec2Model ----
(***************************************************************************)
(* Catalog synchronization pipeline: TMDbETLService (etl/tmdb_etl_service),*)
(* ETLMonitor (etl/monitoring) and ETLScheduler (etl/scheduler).           *)
(***************************************************************************)
EXTENDS Integers, Sequences, FiniteSets, TLC

VARIABLES
    api,        \* the last _api_get call (SpecApi)
    pu,         \* the last _upsert_person call (SpecPerson)
    stats,      \* TMDbETLService.stats
    config,     \* the loaded configuration and environment
    upstream,   \* the upstream catalog
    db,         \* the committed catalog store
    svc,        \* ETLScheduler.etl_service: the instance, its cache, its connection
    it,         \* the running _iter_popular generator
    mon,        \* the Run Monitor's tables
    job,        \* ETLScheduler state and the position of run_etl_job
    hist,       \* per run of run_full_etl: the store and stats it ended with
    sched,      \* the BackgroundScheduler, the main thread and the threads in run_etl_job
    kpi         \* KPIService: its stats, its open transaction, the precomputed_kpis table

vars == <<api, pu, stats, config, upstream, db, svc, it, mon, job, hist, sched, kpi>>

\* Python None and SQL NULL (no text: "NULL" is not a character)
NULL == <<"NULL">>

(* ---------------------------------------------------------------------- *)
(* Bounds                                                                  *)
(* ---------------------------------------------------------------------- *)
MaxRetries == 4
MaxApiCalls == 1
MaxTextLen == 2
MaxItem == 3
MaxListLen == 3
MaxLimit == 2
MaxRuns == 2
MaxFirings == 2

\* distinct external ids handed to a single upsert call
MaxKeys == 2

\* runs of run_kpi_computation on one KPIService
MaxKpiRuns == 2

\* the latest query of a compute_* method that is made to raise
MaxKpiFailAt == 3

\* the longest retention window of cleanup_stale_data, in days
MaxStaleDays == 1

(* ---------------------------------------------------------------------- *)
(* TMDbETLService.stats                                                    *)
(* ---------------------------------------------------------------------- *)
StatsInit ==
    [movies_processed |-> 0, movies_inserted |-> 0, movies_updated |-> 0,
     movies_skipped |-> 0, shows_processed |-> 0, shows_inserted |-> 0,
     shows_updated |-> 0, shows_skipped |-> 0, genres_synced |-> 0,
     people_synced |-> 0, api_calls |-> 0, errors |-> 0]

Bump(st, k) == [st EXCEPT ![k] = @ + 1]

(* ---------------------------------------------------------------------- *)
(* Text values: a string is a sequence of characters; NULL is Python None  *)
(* and SQL NULL.                                                           *)
(* ---------------------------------------------------------------------- *)
NUL == "\\x00"

Chars == {" ", "a", NUL}

Texts == UNION {[1..n -> Chars] : n \in 0..MaxTextLen}

Max(S) == CHOOSE x \in S : \A y \in S : y <= x

RECURSIVE LStrip(_)
LStrip(t) == IF t # <<>> /\ Head(t) = " " THEN LStrip(Tail(t)) ELSE t

RECURSIVE RStrip(_)
RStrip(t) == IF t # <<>> /\ t[Len(t)] = " " THEN RStrip(SubSeq(t, 1, Len(t) - 1)) ELSE t

\* str.strip()
Strip(t) == RStrip(LStrip(t))

\* str.replace('\x00', '')
RemoveNul(t) == SelectSeq(t, LAMBDA c : c # NUL)

\* TMDbETLService._clean_text
CleanText(text) ==
    IF text = NULL \/ text = <<>>
    THEN NULL
    ELSE LET t == RemoveNul(Strip(text))
         IN  IF t # <<>> THEN t ELSE NULL

(* ---------------------------------------------------------------------- *)
(* The catalog store: every table is a set of rows, each with its rowid.   *)
(* A session s = [db, last, st] is the connection's view: the tables, the  *)
(* connection's last_insert_rowid and the service's stats.                 *)
(* ---------------------------------------------------------------------- *)
EmptyDb ==
    [genres |-> {}, movies |-> {}, shows |-> {}, people |-> {},
     movie_genres |-> {}, show_genres |-> {}, movie_cast |-> {}, show_cast |-> {},
     seasons |-> {}, episodes |-> {}]

\* rowid of a new row of a rowid table without AUTOINCREMENT
NextRowid(rows) == IF rows = {} THEN 1 ELSE Max({r.rowid : r \in rows}) + 1

\* COALESCE(excluded.x, x) overwritten by the new value whatever it is
CoalesceOverwrite(new, old) == new

\* COALESCE(excluded.x, x)
Coalesce(new, old) == IF new # NULL THEN new ELSE old

NoExternalIds == [missing |-> TRUE]

\* external_ids = person_data.get('external_ids', {}); external_ids.get(k)
ExternalId(pd, k) == IF pd.external_ids = NoExternalIds THEN NULL ELSE pd.external_ids[k]

\* the VALUES tuple of _upsert_person
PersonParams(pd) ==
    [tmdb_person_id |-> pd.id,
     name           |-> CleanText(pd.name),
     profile_path   |-> pd.profile_path,
     birthday       |-> pd.birthday,
     deathday       |-> pd.deathday,
     place_of_birth |-> CleanText(pd.place_of_birth),
     biography      |-> CleanText(pd.biography),
     imdb_id        |-> ExternalId(pd, "imdb_id"),
     instagram_id   |-> ExternalId(pd, "instagram_id"),
     twitter_id     |-> ExternalId(pd, "twitter_id"),
     facebook_id    |-> ExternalId(pd, "facebook_id")]

PersonColumns ==
    {"tmdb_person_id", "name", "profile_path", "birthday", "deathday", "place_of_birth",
     "biography", "imdb_id", "instagram_id", "twitter_id", "facebook_id"}

\* ON CONFLICT(tmdb_person_id) DO UPDATE SET ...
PersonMerged(old, x) ==
    [rowid          |-> old.rowid,
     tmdb_person_id |-> old.tmdb_person_id,
     name           |-> x.name,
     profile_path   |-> x.profile_path,
     birthday       |-> Coalesce(x.birthday, old.birthday),
     deathday       |-> Coalesce(x.deathday, old.deathday),
     place_of_birth |-> Coalesce(x.place_of_birth, old.place_of_birth),
     biography      |-> Coalesce(x.biography, old.biography),
     imdb_id        |-> Coalesce(x.imdb_id, old.imdb_id),
     instagram_id   |-> Coalesce(x.instagram_id, old.instagram_id),
     twitter_id     |-> Coalesce(x.twitter_id, old.twitter_id),
     facebook_id    |-> Coalesce(x.facebook_id, old.facebook_id)]

PersonRow(rowid, x) ==
    [c \in PersonColumns \cup {"rowid"} |-> IF c = "rowid" THEN rowid ELSE x[c]]

\* TMDbETLService._upsert_person
UpsertPerson(s, pd) ==
    LET x == PersonParams(pd)
        hit == {r \in s.db.people : r.tmdb_person_id = x.tmdb_person_id}
        st1 == Bump(s.st, "people_synced")
    IN  IF hit # {}
        THEN LET old == CHOOSE r \in hit : TRUE
             IN  [s EXCEPT !.db.people = (@ \ {old}) \cup {PersonMerged(old, x)},
                           !.st = st1]
        ELSE LET id == NextRowid(s.db.people)
             IN  [s EXCEPT !.db.people = @ \cup {PersonRow(id, x)},
                           !.last = id,
                           !.st = st1]

\* http counts the session.get attempts issued through the session
\* now is the day CURRENT_TIMESTAMP falls on
\* intx: a transaction is open on the connection; txhttp counts the attempts
\* issued while one was open
Session(d, last, st) ==
    [db |-> d, last |-> last, st |-> st, http |-> 0, asked |-> <<>>, now |-> 1,
     intx |-> FALSE, txhttp |-> 0]

(* ---------------------------------------------------------------------- *)
(* TMDbETLService._api_get                                                 *)
(* ---------------------------------------------------------------------- *)
\* what one session.get / raise_for_status / resp.json() attempt does
AttemptOutcomes == {"ok", "transient", "other"}

IsLastAttemptOffByOne(attempt, max_retries) == attempt = max_retries

IsLastAttempt(attempt, max_retries) == attempt = max_retries - 1

BackoffDelay(attempt) == 2 ^ attempt

\* r: [attempt, st, log, http, kind]; one iteration of the for loop per unfolding.
\* r.log is the call's event log: <<"rate", d>> for the rate-limit sleep,
\* <<"http", n>> for the n-th session.get, <<"backoff", s>> for the backoff sleep.
RECURSIVE ApiGetLoop(_, _, _, _)
ApiGetLoop(r, max_retries, request_delay, outcomes) ==
    IF r.attempt >= max_retries
    THEN [r EXCEPT !.kind = "empty"]
    ELSE
      LET logged == IF request_delay > 0
                   THEN Append(r.log, <<"rate", request_delay>>)
                   ELSE r.log
          o == outcomes[r.attempt + 1]
          r1 == [r EXCEPT !.log = Append(logged, <<"http", r.attempt + 1>>),
                          !.http = @ + 1]
      IN  CASE o = "ok" ->
                 [r1 EXCEPT !.st = Bump(@, "api_calls"), !.kind = "ok"]
            [] o = "other" ->
                 [r1 EXCEPT !.kind = "raise_other"]
            [] OTHER ->
                 IF IsLastAttempt(r.attempt, max_retries)
                 THEN [r1 EXCEPT !.st = Bump(@, "errors"), !.kind = "raise_transient"]
                 ELSE ApiGetLoop(
                        [r1 EXCEPT !.attempt = @ + 1,
                                   !.log = Append(@, <<"backoff", BackoffDelay(r.attempt)>>)],
                        max_retries, request_delay, outcomes)

ApiGet(st, max_retries, request_delay, outcomes) ==
    ApiGetLoop([attempt |-> 0, st |-> st, log |-> <<>>, http |-> 0, kind |-> "none"],
               max_retries, request_delay, outcomes)

Raised(res) == res.kind \in {"raise_transient", "raise_other"}

(* ---------------------------------------------------------------------- *)
(* The upstream catalog (the fixture the client talks to)                  *)
(* ---------------------------------------------------------------------- *)
Kinds == {"movie", "show"}

Items == 1..MaxItem

\* number of results the upstream puts on one listing page
PageSize == 2

LowScore == 1
HighScore == 5

\* what can be wrong with one item of the upstream
MovieAnomalies ==
    {"low_votes", "low_votes_low_pop", "low_pop", "fetch_transient", "fetch_other",
     "fetch_flaky", "cast_fail"}

ShowAnomalies == MovieAnomalies \cup {"season_fail"}

NoAnomaly == [kind |-> "none", id |-> 0, what |-> "none"]

Anomalies ==
    {NoAnomaly}
    \cup {[kind |-> "movie", id |-> i, what |-> w] : i \in 1..2, w \in MovieAnomalies}
    \cup {[kind |-> "show", id |-> 1, what |-> w] : w \in ShowAnomalies}
    \cup {[kind |-> "person", id |-> 1, what |-> "fetch_transient"]}
    \cup {[kind |-> "genres", id |-> 0, what |-> w] : w \in {"fetch_transient", "upsert_fail"}}
    \cup {[kind |-> "listing", id |-> pg, what |-> k] : pg \in 1..2, k \in Kinds}
    \cup {[kind |-> "db", id |-> 0, what |-> "connect_fail"]}
    \cup {[kind |-> "monitor", id |-> 0, what |-> w] : w \in {"start_run", "end_run"}}

\* the Run Monitor's metrics store cannot be written by the given method
MonitorFails(up, method) == up.anomaly.kind = "monitor" /\ up.anomaly.what = method

\* the anomalies that may also set in only with the second run
LateAnomalies ==
    {[kind |-> "movie", id |-> 1, what |-> w] :
        w \in {"low_votes", "fetch_transient", "cast_fail"}}

\* What(up, kind, id): what is wrong with the item, "good" when nothing is
What(up, kind, id) ==
    IF up.anomaly.kind = kind /\ up.anomaly.id = id /\ job.run_count >= up.since
    THEN up.anomaly.what
    ELSE "good"

\* a listing in which items are numbered in the order of their first occurrence
Canonical(l) ==
    \A i \in 1..Len(l) : \A v \in 1..(l[i] - 1) : \E j \in 1..(i - 1) : l[j] = v

Listings ==
    {l \in UNION {[1..n -> Items] : n \in 0..MaxListLen} : Canonical(l)}

ShowListings == {<<>>, <<1>>}

ListingOf(up, kind) == IF kind = "movie" THEN up.movieList ELSE up.showList

ListPath(kind) == IF kind = "movie" THEN "/movie/popular" ELSE "/tv/popular"

\* the results array of page pg of a listing
PageResults(l, pg) ==
    IF (pg - 1) * PageSize >= Len(l)
    THEN <<>>
    ELSE SubSeq(l, (pg - 1) * PageSize + 1,
                IF pg * PageSize <= Len(l) THEN pg * PageSize ELSE Len(l))

CastEntry(pid) ==
    [id |-> pid, name |-> <<"a">>, profile_path |-> <<"a">>,
     character |-> <<"a", " ">>, order |-> pid]

CastOf(id) ==
    IF id % 3 = 1 THEN <<CastEntry(1)>>
    ELSE IF id % 3 = 2 THEN <<>>
    ELSE <<CastEntry(1), CastEntry(2)>>

\* the detail document of an item (credits and seasons appended)
DetailOf(up, kind, id) ==
    [id         |-> id,
     title      |-> <<"a">>,
     vote_count |-> IF What(up, kind, id) \in {"low_votes", "low_votes_low_pop"}
                    THEN LowScore ELSE HighScore,
     popularity |-> IF What(up, kind, id) \in {"low_pop", "low_votes_low_pop"}
                    THEN LowScore ELSE HighScore,
     genres     |-> <<1>>,
     cast       |-> CastOf(id),
     seasons    |-> IF kind = "show" THEN <<0, 1>> ELSE <<>>]

\* the /person/{id} document with external_ids appended
PersonDetailOf(pid) ==
    [id |-> pid, name |-> <<"a">>, profile_path |-> <<"a">>, birthday |-> <<"a">>,
     deathday |-> NULL, place_of_birth |-> <<"a">>, biography |-> <<"a", " ">>,
     external_ids |-> [imdb_id |-> <<"a">>, instagram_id |-> <<>>,
                       twitter_id |-> NULL, facebook_id |-> NULL]]

\* the episodes array of /tv/{id}/season/{n}
EpisodesOf(id, season_number) == <<1, 2>>

\* per-attempt outcomes of one HTTP request, by what is wrong with its target
OutcomesFor(what, max_retries) ==
    [i \in 1..max_retries |->
        CASE what = "fetch_transient" -> "transient"
          [] what = "fetch_other" -> "other"
          [] what = "fetch_flaky" -> IF i = 1 THEN "transient" ELSE "ok"
          [] OTHER -> "ok"]

(* ---------------------------------------------------------------------- *)
(* Configuration (etl_config.yaml)                                         *)
(* ---------------------------------------------------------------------- *)
BaseConfig ==
    [movies |-> MaxLimit, shows |-> 1, max_cast |-> 25, episodes_per_season |-> 1,
     min_vote_count |-> 3, min_popularity |-> 3, max_retries |-> 2, request_delay |-> 0,
     cleanup_stale_days |-> 0, kpi |-> "on", enable_metrics |-> TRUE, api_key |-> TRUE,
     run_on_startup |-> FALSE]

Configs ==
    {[BaseConfig EXCEPT !.movies = l] : l \in 0..MaxLimit}
    \cup {[BaseConfig EXCEPT !.kpi = k] : k \in {"off", "null"}}
    \cup {[BaseConfig EXCEPT !.enable_metrics = FALSE], [BaseConfig EXCEPT !.api_key = FALSE]}
    \cup {[BaseConfig EXCEPT !.cleanup_stale_days = n] : n \in 1..MaxStaleDays}

NoPerson ==
    [id |-> 0, name |-> NULL, profile_path |-> NULL, birthday |-> NULL, deathday |-> NULL,
     place_of_birth |-> NULL, biography |-> NULL, external_ids |-> NoExternalIds]

(* ---------------------------------------------------------------------- *)
(* Record Transformer/Validator                                            *)
(* ---------------------------------------------------------------------- *)
\* a validator that forgets the vote-count check
ValidateDataNoVotes(cfg, data) == ~(data.popularity < cfg.min_popularity)

\* TMDbETLService._validate_movie_data, _validate_show_data (require_poster and
\* require_overview are off)
ValidateData(cfg, data) ==
    /\ ~(data.vote_count < cfg.min_vote_count)
    /\ ~(data.popularity < cfg.min_popularity)

\* TMDbETLService._transform_movie_data, _transform_show_data
TransformData(data) ==
    [tmdb_id |-> data.id, title |-> CleanText(data.title), popularity |-> data.popularity]

(* ---------------------------------------------------------------------- *)
(* Catalog Repository                                                      *)
(* ---------------------------------------------------------------------- *)
ItemTable(kind) == IF kind = "movie" THEN "movies" ELSE "shows"

GenreLinkTable(kind) == IF kind = "movie" THEN "movie_genres" ELSE "show_genres"

CastTable(kind) == IF kind = "movie" THEN "movie_cast" ELSE "show_cast"

StatKey(kind, what) == IF kind = "movie" THEN "movies_" \o what ELSE "shows_" \o what

\* the row with the given external id exists whatever cursor.lastrowid is
ExistedBeforeIgnoringRowid(rows, tmdb_id, lastrowid) ==
    \E r \in rows : r.tmdb_id = tmdb_id

\* SELECT movie_id FROM movies WHERE tmdb_id = ? AND movie_id != ?
ExistingOther(rows, tmdb_id, lastrowid) ==
    \E r \in rows : r.tmdb_id = tmdb_id /\ r.rowid # lastrowid

\* an upsert that inserts a second row on conflict
UpsertRowsDuplicating(rows, d, now) ==
    rows \cup {[rowid |-> NextRowid(rows), tmdb_id |-> d.tmdb_id, title |-> d.title,
                popularity |-> d.popularity, created_at |-> now]}

\* INSERT INTO movies|shows ... ON CONFLICT(tmdb_id) DO UPDATE SET ...; created_at
\* is not among the inserted columns (the table's default fills it) nor in the
\* SET list
UpsertRows(rows, d, now) ==
    LET hit == {r \in rows : r.tmdb_id = d.tmdb_id}
    IN  IF hit = {}
        THEN rows \cup {[rowid |-> NextRowid(rows), tmdb_id |-> d.tmdb_id,
                         title |-> d.title, popularity |-> d.popularity,
                         created_at |-> now]}
        ELSE (rows \ hit)
             \cup {[r EXCEPT !.title = d.title, !.popularity = d.popularity] : r \in hit}

\* TMDbETLService._upsert_movie, _upsert_show
UpsertItem(s, kind, d) ==
    LET tbl == ItemTable(kind)
        rows == UpsertRows(s.db[tbl], d, s.now)
        inserted == rows \ s.db[tbl]
        fresh == {r \in inserted : \A o \in s.db[tbl] : o.rowid # r.rowid}
        \* cursor.lastrowid: the connection's last_insert_rowid, which the
        \* DO UPDATE branch leaves as it was
        lastrowid == IF fresh = {} THEN s.last ELSE (CHOOSE r \in fresh : TRUE).rowid
        s1 == [s EXCEPT !.db[tbl] = rows, !.last = lastrowid]
    IN  IF ExistingOther(rows, d.tmdb_id, lastrowid)
        THEN [s1 EXCEPT !.st = Bump(@, StatKey(kind, "updated"))]
        ELSE [s1 EXCEPT !.st = Bump(@, StatKey(kind, "inserted"))]

ItemRowid(s, kind, tmdb_id) ==
    {r.rowid : r \in {x \in s.db[ItemTable(kind)] : x.tmdb_id = tmdb_id}}

\* INSERT OR IGNORE INTO movie_genres ... SELECT ... for one genre
LinkGenre(s, kind, tmdb_id, genre_id) ==
    LET tbl == GenreLinkTable(kind)
        gs == {g.rowid : g \in {x \in s.db.genres : x.tmdb_genre_id = genre_id}}
        new == {p \in ItemRowid(s, kind, tmdb_id) \X gs :
                   ~ \E r \in s.db[tbl] : r.item_id = p[1] /\ r.genre_id = p[2]}
    IN  IF new = {}
        THEN s
        ELSE LET pr == CHOOSE x \in new : TRUE
                 id == NextRowid(s.db[tbl])
             IN  [s EXCEPT !.db[tbl] = @ \cup {[rowid |-> id, item_id |-> pr[1],
                                               genre_id |-> pr[2]]},
                           !.last = id]

\* TMDbETLService._link_movie_genres, _link_show_genres
RECURSIVE LinkGenres(_, _, _, _)
LinkGenres(s, kind, tmdb_id, genres) ==
    IF genres = <<>>
    THEN s
    ELSE LinkGenres(LinkGenre(s, kind, tmdb_id, Head(genres)), kind, tmdb_id, Tail(genres))

\* TMDbETLService._attach_movie_cast, _attach_show_cast
AttachCast(s, kind, tmdb_id, cast) ==
    LET tbl == CastTable(kind)
        item_id == CHOOSE i \in ItemRowid(s, kind, tmdb_id) : TRUE
        person_id == (CHOOSE r \in s.db.people : r.tmdb_person_id = cast.id).rowid
        hit == {r \in s.db[tbl] : r.item_id = item_id /\ r.person_id = person_id}
        vals == [character |-> CleanText(cast.character), cast_order |-> cast.order]
    IN  IF hit # {}
        THEN [s EXCEPT !.db[tbl] =
                (@ \ hit) \cup {[r EXCEPT !.character = vals.character,
                                          !.cast_order = vals.cast_order] : r \in hit}]
        ELSE LET id == NextRowid(s.db[tbl])
             IN  [s EXCEPT !.db[tbl] = @ \cup {[rowid |-> id, item_id |-> item_id,
                                               person_id |-> person_id,
                                               character |-> vals.character,
                                               cast_order |-> vals.cast_order]},
                           !.last = id]

\* TMDbETLService._upsert_season
UpsertSeason(s, show_tmdb_id, season_number) ==
    LET show_id == CHOOSE i \in ItemRowid(s, "show", show_tmdb_id) : TRUE
        hit == {r \in s.db.seasons : r.show_id = show_id /\ r.season_number = season_number}
    IN  IF hit # {}
        THEN [s EXCEPT !.db.seasons = (@ \ hit) \cup {[r EXCEPT !.title = <<"a">>] : r \in hit}]
        ELSE LET id == NextRowid(s.db.seasons)
             IN  [s EXCEPT !.db.seasons = @ \cup {[rowid |-> id, show_id |-> show_id,
                                                  season_number |-> season_number,
                                                  title |-> <<"a">>]},
                           !.last = id]

\* TMDbETLService._upsert_episode
UpsertEpisode(s, show_tmdb_id, season_number, episode_number) ==
    LET show_id == CHOOSE i \in ItemRowid(s, "show", show_tmdb_id) : TRUE
        season_id == (CHOOSE r \in s.db.seasons :
                         r.show_id = show_id /\ r.season_number = season_number).rowid
        hit == {r \in s.db.episodes :
                   r.season_id = season_id /\ r.episode_number = episode_number}
    IN  IF hit # {}
        THEN [s EXCEPT !.db.episodes = (@ \ hit) \cup {[r EXCEPT !.title = <<"a">>] : r \in hit}]
        ELSE LET id == NextRowid(s.db.episodes)
             IN  [s EXCEPT !.db.episodes = @ \cup {[rowid |-> id, season_id |-> season_id,
                                                   episode_number |-> episode_number,
                                                   title |-> <<"a">>]},
                           !.last = id]

\* seq[:n]
Take(seq, n) == IF Len(seq) <= n THEN seq ELSE SubSeq(seq, 1, n)

(* ---------------------------------------------------------------------- *)
(* Sync Orchestrator: the per-item work of process_movies / process_shows  *)
(* ---------------------------------------------------------------------- *)
\* one _api_get issued on session s against a target with the given trouble
Call(s, cfg, what) ==
    LET res == ApiGet(s.st, cfg.max_retries, cfg.request_delay,
                      OutcomesFor(what, cfg.max_retries))
    IN  [s |-> [s EXCEPT !.st = res.st, !.http = @ + res.http,
                         !.txhttp = IF s.intx THEN @ + res.http ELSE @],
         kind |-> res.kind]

CacheHit(cache, pid) == {e \in cache : e.id = pid}

\* TMDbETLService._fetch_person_details
FetchPersonDetails(s, cache, up, cfg, pid) ==
    IF CacheHit(cache, pid) # {}
    THEN [s |-> s, cache |-> cache, pd |-> CHOOSE e \in CacheHit(cache, pid) : TRUE]
    ELSE LET c == Call([s EXCEPT !.asked = Append(@, pid)], cfg, What(up, "person", pid))
         IN  IF c.kind = "ok"
             THEN [s |-> c.s, cache |-> cache \cup {PersonDetailOf(pid)},
                   pd |-> PersonDetailOf(pid)]
             ELSE [s |-> c.s, cache |-> cache, pd |-> NoPerson]

\* the loop that fetches person details before the transaction; r: [s, cache, map]
RECURSIVE FetchPeople(_, _, _, _)
FetchPeople(r, up, cfg, credits) ==
    IF credits = <<>>
    THEN r
    ELSE LET cast == Head(credits)
             f == FetchPersonDetails(r.s, r.cache, up, cfg, cast.id)
             \* person_details.update({...}) changes the cached dictionary too
             pd == [f.pd EXCEPT !.id = cast.id, !.name = cast.name,
                                !.profile_path = cast.profile_path]
             cache == IF CacheHit(f.cache, cast.id) # {}
                      THEN (f.cache \ CacheHit(f.cache, cast.id)) \cup {pd}
                      ELSE f.cache
         IN  FetchPeople([s |-> f.s, cache |-> cache,
                          map |-> {m \in r.map : m.id # cast.id} \cup {pd}],
                         up, cfg, Tail(credits))

\* the cast loop inside the transaction; r: [s, ok]
RECURSIVE PersistCast(_, _, _, _, _, _)
PersistCast(r, kind, tmdb_id, credits, map, attach_fails) ==
    IF credits = <<>> \/ ~r.ok
    THEN r
    ELSE LET cast == Head(credits)
             s1 == UpsertPerson(r.s, CHOOSE m \in map : m.id = cast.id)
         IN  IF attach_fails
             THEN [s |-> s1, ok |-> FALSE]
             ELSE PersistCast([s |-> AttachCast(s1, kind, tmdb_id, cast), ok |-> TRUE],
                              kind, tmdb_id, Tail(credits), map, attach_fails)

RECURSIVE PersistEpisodes(_, _, _, _)
PersistEpisodes(s, show_id, season_number, episodes) ==
    IF episodes = <<>>
    THEN s
    ELSE PersistEpisodes(UpsertEpisode(s, show_id, season_number, Head(episodes)),
                         show_id, season_number, Tail(episodes))

\* the season loop inside the transaction; fetched: season numbers whose detail
\* was fetched before the transaction
RECURSIVE PersistSeasons(_, _, _, _, _)
PersistSeasons(s, cfg, show_id, seasons, fetched) ==
    IF seasons = <<>>
    THEN s
    ELSE LET n == Head(seasons)
         IN  IF n = 0
             THEN PersistSeasons(s, cfg, show_id, Tail(seasons), fetched)
             ELSE LET s1 == UpsertSeason(s, show_id, n)
                      s2 == IF n \in fetched
                            THEN PersistEpisodes(s1, show_id, n,
                                   Take(EpisodesOf(show_id, n), cfg.episodes_per_season))
                            ELSE s1
                  IN  PersistSeasons(s2, cfg, show_id, Tail(seasons), fetched)

\* the loop that fetches season details before the transaction; r: [s, fetched]
RECURSIVE FetchSeasons(_, _, _, _)
FetchSeasons(r, cfg, what, seasons) ==
    IF seasons = <<>>
    THEN r
    ELSE LET n == Head(seasons)
         IN  IF n = 0
             THEN FetchSeasons(r, cfg, what, Tail(seasons))
             ELSE LET c == Call(r.s, cfg, IF what = "season_fail"
                                          THEN "fetch_transient" ELSE "good")
                  IN  FetchSeasons([s |-> c.s,
                                    fetched |-> IF c.kind = "ok"
                                                THEN r.fetched \cup {n} ELSE r.fetched],
                                   cfg, what, Tail(seasons))

\* a transaction that keeps the writes made before the exception
EndTransactionNoRollback(before, after, ok) == after.db

\* with conn: commit when the block ends, roll back when it raises
EndTransaction(before, after, ok) == IF ok THEN after.db ELSE before.db

\* the end of the with block and of the try: commit, or roll back and count the
\* error (lines 642-665); returns [s, cache]
ItemEnd(before, after, ok, cache) ==
    [s |-> IF ok
           THEN [after EXCEPT !.db = EndTransaction(before, after, ok), !.intx = FALSE]
           ELSE [after EXCEPT !.db = EndTransaction(before, after, ok), !.intx = FALSE,
                              !.st = Bump(@, "errors")],
     cache |-> cache]

\* the seasons of a show, written in the transaction after its cast (lines 743-757)
ItemSeasons(before, t2, cfg, kind, id, seasons, fetched, cache) ==
    ItemEnd(before,
            IF t2.ok /\ kind = "show"
            THEN PersistSeasons(t2.s, cfg, id, seasons, fetched)
            ELSE t2.s,
            t2.ok, cache)

\* the first write of the with block opens the transaction
BeginTransaction(s) == [s EXCEPT !.intx = TRUE]

\* the with block (lines 642-656): the item row, its genre links, its cast
ItemTransaction(f, p, cfg, kind, id, detail, what) ==
    ItemSeasons(f.s,
                PersistCast([s |-> LinkGenres(UpsertItem(BeginTransaction(f.s), kind,
                                                         TransformData(detail)),
                                              kind, id, detail.genres),
                             ok |-> TRUE],
                            kind, id, Take(detail.cast, cfg.max_cast), p.map,
                            what = "cast_fail"),
                cfg, kind, id, detail.seasons, f.fetched, p.cache)

\* season details fetched after the transaction was opened
ItemFetchesInTransaction(p, cfg, kind, id, detail, what) ==
    ItemTransaction(FetchSeasons([s |-> BeginTransaction(p.s), fetched |-> {}], cfg, what,
                                 detail.seasons),
                    p, cfg, kind, id, detail, what)

\* the fetches made before the transaction for a valid item (lines 624-639; for a
\* show also the season details)
ItemFetches(p, cfg, kind, id, detail, what) ==
    ItemTransaction(FetchSeasons([s |-> p.s, fetched |-> {}], cfg, what, detail.seasons),
                    p, cfg, kind, id, detail, what)

\* what follows the detail fetch d (lines 618-639)
ItemFetched(d, cache, up, cfg, kind, id, detail) ==
    IF d.kind # "ok"
    THEN [s |-> [d.s EXCEPT !.st = Bump(@, "errors")], cache |-> cache]
    ELSE IF ~ValidateData(cfg, detail)
    THEN [s |-> [d.s EXCEPT !.st = Bump(@, StatKey(kind, "skipped"))], cache |-> cache]
    ELSE ItemFetches(FetchPeople([s |-> d.s, cache |-> cache, map |-> {}],
                                 up, cfg, Take(detail.cast, cfg.max_cast)),
                     cfg, kind, id, detail, What(up, kind, id))

\* the body of the for loop of process_movies / process_shows for one summary
\* (lines 609-665 and 680-767); returns [s, cache]
ProcessItem(s, cache, up, cfg, kind, id) ==
    ItemFetched(Call([s EXCEPT !.st = Bump(@, StatKey(kind, "processed"))],
                     cfg, What(up, kind, id)),
                cache, up, cfg, kind, id, DetailOf(up, kind, id))

\* DELETE FROM movies|shows WHERE created_at < cutoff; the rows that reference a
\* deleted item go with it
DeleteStale(d, kind, cutoff) ==
    LET gone == {r.rowid : r \in {x \in d[ItemTable(kind)] : x.created_at < cutoff}}
        d1 == [d EXCEPT ![ItemTable(kind)] = {r \in @ : r.rowid \notin gone},
                        ![GenreLinkTable(kind)] = {r \in @ : r.item_id \notin gone},
                        ![CastTable(kind)] = {r \in @ : r.item_id \notin gone}]
        seasons == {r.rowid : r \in {x \in d.seasons : x.show_id \in gone}}
    IN  IF kind = "movie"
        THEN d1
        ELSE [d1 EXCEPT !.seasons = {r \in @ : r.rowid \notin seasons},
                        !.episodes = {r \in @ : r.season_id \notin seasons}]

\* a cleanup that runs also with a window of 0 days
CleanupStaleDataUnguarded(d, cfg, now) ==
    DeleteStale(DeleteStale(d, "movie", now - cfg.cleanup_stale_days),
                "show", now - cfg.cleanup_stale_days)

\* TMDbETLService.cleanup_stale_data
CleanupStaleData(d, cfg, now) ==
    IF cfg.cleanup_stale_days <= 0
    THEN d
    ELSE DeleteStale(DeleteStale(d, "movie", now - cfg.cleanup_stale_days),
                     "show", now - cfg.cleanup_stale_days)

\* the genre rows of /genre/movie/list and /genre/tv/list, merged by id
UpstreamGenres == {1}

\* ON CONFLICT(tmdb_genre_id) DO UPDATE SET name = excluded.name, for every genre
RECURSIVE UpsertGenres(_, _)
UpsertGenres(s, genres) ==
    IF genres = {}
    THEN s
    ELSE LET g == CHOOSE x \in genres : TRUE
             hit == {r \in s.db.genres : r.tmdb_genre_id = g}
             s1 == IF hit # {}
                   THEN s
                   ELSE LET id == NextRowid(s.db.genres)
                        IN  [s EXCEPT !.db.genres = @ \cup {[rowid |-> id,
                                                            tmdb_genre_id |-> g]},
                                      !.last = id]
         IN  UpsertGenres(s1, genres \ {g})

\* an except branch that re-raises after counting
SyncGenresExceptReraise(s, before) ==
    [s |-> [s EXCEPT !.st = Bump(@, "errors"), !.db = before.db], raised |-> TRUE]

\* the except branch of sync_genres (lines 303-305): log, count, return normally;
\* the writes of the with-block are rolled back
SyncGenresExcept(s, before) ==
    [s |-> [s EXCEPT !.st = Bump(@, "errors"), !.db = before.db], raised |-> FALSE]

\* TMDbETLService.sync_genres; returns [s, raised]
SyncGenres(s, up, cfg) ==
    LET what == IF up.anomaly.kind = "genres" THEN up.anomaly.what ELSE "good"
        c1 == Call(s, cfg, what)
        c2 == Call(c1.s, cfg, what)
    IN  IF c1.kind # "ok"
        THEN SyncGenresExcept(c1.s, s)
        ELSE IF c2.kind # "ok"
        THEN SyncGenresExcept(c2.s, s)
        ELSE IF what = "upsert_fail"
        THEN SyncGenresExcept(UpsertGenres(c2.s, UpstreamGenres), s)
        ELSE [s |-> [UpsertGenres(c2.s, UpstreamGenres)
                       EXCEPT !.st.genres_synced = Cardinality(UpstreamGenres)],
              raised |-> FALSE]

(* ---------------------------------------------------------------------- *)
(* Run Monitor (etl_metrics.db)                                            *)
(* ---------------------------------------------------------------------- *)
CounterKeys ==
    {"movies_processed", "movies_inserted", "movies_updated", "movies_skipped",
     "shows_processed", "shows_inserted", "shows_updated", "shows_skipped",
     "api_calls", "errors"}

\* stats.get(k, 0); NoStats is the empty dictionary
NoStats == [none |-> 0]

StatGet(st, k) == IF k \in DOMAIN st THEN st[k] ELSE 0

MonInit == [runs |-> <<>>, errors |-> <<>>, clock |-> 1]

\* ETLMonitor.start_run; the new row's run_id is Len(runs) + 1
StartRun(m) ==
    [m EXCEPT !.runs = Append(@, [run_id |-> Len(m.runs) + 1, start_time |-> m.clock,
                                  end_time |-> 0, status |-> "running",
                                  error_message |-> "",
                                  counters |-> [k \in CounterKeys |-> 0]]),
              !.clock = @ + 1]

\* an end_run that leaves a sealed row alone
EndRunGuarded(m, run_id, st, status, error_message) ==
    [m EXCEPT !.runs = [i \in DOMAIN m.runs |->
                          IF m.runs[i].run_id = run_id /\ m.runs[i].status = "running"
                          THEN [m.runs[i] EXCEPT !.end_time = m.clock,
                                                 !.status = status,
                                                 !.error_message = error_message,
                                                 !.counters = [k \in CounterKeys |-> StatGet(st, k)]]
                          ELSE m.runs[i]],
              !.clock = @ + 1]

\* ETLMonitor.end_run: UPDATE etl_runs SET ... WHERE run_id = ?
EndRun(m, run_id, st, status, error_message) ==
    [m EXCEPT !.runs = [i \in DOMAIN m.runs |->
                          IF m.runs[i].run_id = run_id
                          THEN [m.runs[i] EXCEPT !.end_time = m.clock,
                                                 !.status = status,
                                                 !.error_message = error_message,
                                                 !.counters = [k \in CounterKeys |-> StatGet(st, k)]]
                          ELSE m.runs[i]],
              !.clock = @ + 1]

\* ETLMonitor.log_error
LogError(m, run_id, error_type, error_message) ==
    [m EXCEPT !.errors = Append(@, [run_id |-> run_id, timestamp |-> m.clock,
                                    error_type |-> error_type,
                                    error_message |-> error_message]),
              !.clock = @ + 1]

(* ---------------------------------------------------------------------- *)
(* State of the scheduler, the service and the running generator           *)
(* ---------------------------------------------------------------------- *)
\* since: the run from which the anomaly shows
UpstreamIdle == [movieList |-> <<>>, showList |-> <<>>, anomaly |-> NoAnomaly, since |-> 1]

\* ETLScheduler.etl_service is None until the first run constructs it
(* ---------------------------------------------------------------------- *)
(* KPI Service (kpi_service.py)                                            *)
(* ---------------------------------------------------------------------- *)
\* the compute_* methods in the order run_kpi_computation calls them, by the
\* category they store under
KpiCategories ==
    <<"user_activity", "review_trends", "title_stats", "genre_stats", "platform_stats">>

\* the KPI names a compute_* method stores, in order
KpiNames(category) ==
    CASE category = "user_activity" ->
           <<"top_reviewers", "top_discussers", "top_commenters", "top_watchlisters",
             "user_counts">>
      [] category = "review_trends" ->
           <<"daily_reviews_30d", "rating_distribution", "media_type_split">>
      [] category = "title_stats" ->
           <<"most_reviewed_movies", "most_reviewed_shows", "highest_rated_movies",
             "highest_rated_shows", "most_discussed_movies", "most_discussed_shows",
             "most_watchlisted_movies", "most_watchlisted_shows">>
      [] category = "genre_stats" ->
           <<"movie_genre_distribution", "show_genre_distribution",
             "highest_rated_genres">>
      [] OTHER ->
           <<"overall_counts", "average_ratings", "activity_7d">>

KpiNoFail == [category |-> "none", at |-> 0]

\* which query of a run raises: the one that feeds the at-th KPI of a category
KpiFailures ==
    {KpiNoFail}
    \cup {f \in [category : {KpiCategories[c] : c \in 1..Len(KpiCategories)},
                  at : 1..MaxKpiFailAt] : f.at <= Len(KpiNames(f.category))}

KpiStatsInit == [kpis_computed |-> 0, execution_time |-> 0, errors |-> 0]

KpiIdle ==
    [pc |-> "idle", run |-> 0, fail |-> KpiNoFail, next |-> 1, stats |-> KpiStatsInit,
     pending |-> {}, table |-> {}, result |-> "none"]

\* INSERT INTO precomputed_kpis ... ON CONFLICT(category, kpi_name) DO UPDATE
UpsertKpi(rows, row) ==
    {r \in rows : ~(r.category = row.category /\ r.kpi_name = row.kpi_name)} \cup {row}

\* KPIService._store_kpi; computed_at is the run that stored the value
StoreKpi(k, category, name) ==
    [k EXCEPT !.pending = UpsertKpi(@, [category |-> category, kpi_name |-> name,
                                        computed_at |-> k.run]),
              !.stats.kpis_computed = @ + 1]

\* one compute_* method from its i-th KPI on; returns [k, raised]
RECURSIVE ComputeCategory(_, _, _)
ComputeCategory(k, category, i) ==
    IF i > Len(KpiNames(category))
    THEN [k |-> k, raised |-> FALSE]
    ELSE IF k.fail.category = category /\ k.fail.at = i
    THEN [k |-> k, raised |-> TRUE]
    ELSE ComputeCategory(StoreKpi(k, category, KpiNames(category)[i]), category, i + 1)

\* conn.commit() on the table t with the open transaction's rows
RECURSIVE CommitKpis(_, _)
CommitKpis(t, pending) ==
    IF pending = {}
    THEN t
    ELSE LET row == CHOOSE r \in pending : TRUE
         IN  CommitKpis(UpsertKpi(t, row), pending \ {row})

\* asked: the person ids of the /person requests of the current run, in order
SvcIdle ==
    [exists |-> FALSE, cache |-> {}, last |-> 0, http |-> 0, asked |-> <<>>,
     intx |-> FALSE, txhttp |-> 0]

ItIdle ==
    [kind |-> "none", total |-> 0, page |-> 1, collected |-> 0, buf |-> <<>>,
     done |-> TRUE, pages |-> <<>>, yielded |-> <<>>]

\* ETLScheduler.__init__
JobIdle ==
    [pc |-> "idle", run_count |-> 0, monitor_run_id |-> 0,
     last_run_status |-> "Never run", exc |-> "", kpi_runs |-> 0]

Threads == {"main", "pool"}

\* no thread is inside run_etl_job; BackgroundScheduler constructed, not started;
\* the process has not returned an exit code
SchedIdle ==
    [running |-> FALSE, main |-> "created", instances |-> 0, fired |-> 0, skipped |-> 0,
     th |-> [t \in Threads |-> [pc |-> "idle", monitor_run_id |-> 0]],
     exit_code |-> -1]

\* days between two runs of the scheduled job
RunGapDays == 2

\* the day the current run takes place on
Today == 1 + (job.run_count - 1) * RunGapDays

\* the connection's view during a run
Sess ==
    [db |-> db, last |-> svc.last, st |-> stats, http |-> svc.http, asked |-> svc.asked,
     now |-> Today, intx |-> svc.intx, txhttp |-> svc.txhttp]

\* _iter_popular(path, total) up to its first while test
IterStart(kind, total) ==
    [ItIdle EXCEPT !.kind = kind, !.total = total, !.done = FALSE]

\* a test that lets the loop take one more page
WhileTestOffByOne(collected, total) == collected <= total

\* while collected < total
WhileTest(collected, total) == collected < total

\* a full page is always followed by another request
PageEmptyNever(results) == FALSE

\* if not results: break
PageEmpty(results) == results = <<>>

\* the limit test after a yield that never stops the page
LimitReachedNever(collected, total) == FALSE

\* if collected >= total: break
LimitReached(collected, total) == collected >= total

PuIdle == [phase |-> "idle", before |-> {}, pd |-> NoPerson, after |-> {}, last |-> 0]

ApiIdle ==
    [calls |-> 0, max_retries |-> 0, request_delay |-> 0, outcomes |-> <<>>,
     log |-> <<>>, http |-> 0, kind |-> "none"]

(* ---------------------------------------------------------------------- *)
(* Specification of single _api_get calls                                  *)
(* ---------------------------------------------------------------------- *)
InitApi ==
    /\ api = ApiIdle
    /\ stats = StatsInit
    /\ pu = PuIdle
    /\ config = BaseConfig
    /\ upstream = UpstreamIdle
    /\ db = EmptyDb
    /\ svc = SvcIdle
    /\ it = ItIdle
    /\ mon = MonInit
    /\ job = JobIdle
    /\ hist = <<>>
    /\ sched = SchedIdle
    /\ kpi = KpiIdle

ApiGetCall ==
    /\ api.calls < MaxApiCalls
    /\ \E k \in 0..MaxRetries, d \in {0, 1} : \E outs \in [1..k -> AttemptOutcomes] :
         LET res == ApiGet(stats, k, d, outs)
         IN  /\ api' = [calls |-> api.calls + 1, max_retries |-> k, request_delay |-> d,
                        outcomes |-> outs, log |-> res.log, http |-> res.http,
                        kind |-> res.kind]
             /\ stats' = res.st
             /\ UNCHANGED <<pu, config, upstream, db, svc, it, mon, job, hist, sched, kpi>>

NextApi == ApiGetCall

SpecApi == InitApi /\ [][NextApi]_vars

(* ---------------------------------------------------------------------- *)
(* Specification of single _upsert_person calls on a people table           *)
(* ---------------------------------------------------------------------- *)
RawVals == {NULL, <<>>, <<"a">>}

ExternalIdsInputs ==
    {NoExternalIds} \cup {[imdb_id |-> v, instagram_id |-> v, twitter_id |-> v, facebook_id |-> v] :
                    v \in RawVals}

\* person_data dictionaries as process_movies builds them (person detail merged
\* with the cast entry's id, name and profile_path)
PersonInputs ==
    {[id |-> 1, name |-> t, profile_path |-> v, birthday |-> v, deathday |-> v,
      place_of_birth |-> t, biography |-> t, external_ids |-> e] :
        t \in Texts \cup {NULL}, v \in RawVals, e \in ExternalIdsInputs}

InitPerson ==
    /\ api = ApiIdle
    /\ stats = StatsInit
    /\ config = BaseConfig
    /\ upstream = UpstreamIdle
    /\ db = EmptyDb
    /\ svc = SvcIdle
    /\ it = ItIdle
    /\ mon = MonInit
    /\ job = JobIdle
    /\ hist = <<>>
    /\ sched = SchedIdle
    /\ kpi = KpiIdle
    /\ \E pd \in PersonInputs :
         \/ pu = [PuIdle EXCEPT !.phase = "input", !.pd = pd]
         \/ \E pd0 \in PersonInputs :
              pu = [PuIdle EXCEPT !.phase = "input", !.pd = pd,
                      !.before = UpsertPerson(Session(EmptyDb, 0, StatsInit), pd0).db.people]

UpsertPersonCall ==
    /\ pu.phase = "input"
    /\ LET s == UpsertPerson(Session([EmptyDb EXCEPT !.people = pu.before], 0, stats), pu.pd)
       IN  /\ pu' = [pu EXCEPT !.phase = "done", !.after = s.db.people, !.last = s.last]
           /\ stats' = s.st
    /\ UNCHANGED <<api, config, upstream, db, svc, it, mon, job, hist, sched, kpi>>

NextPerson == UpsertPersonCall

SpecPerson == InitPerson /\ [][NextPerson]_vars

(* ---------------------------------------------------------------------- *)
(* Specification SpecUpsert: one _upsert_movie / _upsert_show call on a     *)
(* table that earlier upserts filled                                        *)
(* ---------------------------------------------------------------------- *)
\* the dictionaries _transform_movie_data / _transform_show_data can hand over
ItemInputs ==
    [tmdb_id : 1..MaxKeys, title : {<<"a">>, <<"b">>}, popularity : {LowScore, HighScore}]

\* the sessions that zero, one or two earlier upserts leave behind
ItemSessions(kind) ==
    {Session(EmptyDb, 0, StatsInit)}
    \cup {UpsertItem(Session(EmptyDb, 0, StatsInit), kind, d0) : d0 \in ItemInputs}
    \cup {UpsertItem(UpsertItem(Session(EmptyDb, 0, StatsInit), kind, d0), kind, d1) :
             d0 \in ItemInputs, d1 \in ItemInputs}

InitUpsert ==
    /\ api = ApiIdle
    /\ stats = StatsInit
    /\ config = BaseConfig
    /\ upstream = UpstreamIdle
    /\ db = EmptyDb
    /\ svc = SvcIdle
    /\ it = ItIdle
    /\ mon = MonInit
    /\ job = JobIdle
    /\ hist = <<>>
    /\ sched = SchedIdle
    /\ kpi = KpiIdle
    /\ \E kind \in Kinds, d \in ItemInputs :
         \E s0 \in ItemSessions(kind) :
            \* the same connection, or a new one on the same file
            \E last \in {0, s0.last} :
               pu = [phase |-> "input", kind |-> kind, pd |-> d,
                     before |-> s0.db[ItemTable(kind)], after |-> {}, last |-> last]

UpsertItemCall ==
    /\ pu.phase = "input"
    /\ LET s == UpsertItem([Session([EmptyDb EXCEPT ![ItemTable(pu.kind)] = pu.before],
                                    pu.last, stats) EXCEPT !.now = 1 + RunGapDays],
                           pu.kind, pu.pd)
       IN  /\ pu' = [pu EXCEPT !.phase = "done", !.after = s.db[ItemTable(pu.kind)],
                               !.last = s.last]
           /\ stats' = s.st
    /\ UNCHANGED <<api, config, upstream, db, svc, it, mon, job, hist, sched, kpi>>

NextUpsert == UpsertItemCall

SpecUpsert == InitUpsert /\ [][NextUpsert]_vars

(* ---------------------------------------------------------------------- *)
(* Specification of the scheduler's runs: run_etl_job, run_full_etl        *)
(* ---------------------------------------------------------------------- *)
Init ==
    /\ api = ApiIdle
    /\ pu = PuIdle
    /\ stats = StatsInit
    /\ \/ /\ config \in {[BaseConfig EXCEPT !.movies = l] : l \in 0..MaxLimit}
          /\ \E a \in Anomalies, ml \in Listings, sl \in ShowListings, n \in 1..2 :
                upstream = [movieList |-> ml, showList |-> sl, anomaly |-> a,
                            since |-> IF a \in LateAnomalies THEN n ELSE 1]
       \/ /\ config \in Configs
          /\ \E ml \in Listings, sl \in ShowListings :
                upstream = [movieList |-> ml, showList |-> sl, anomaly |-> NoAnomaly,
                            since |-> 1]
    /\ db = EmptyDb
    /\ svc = SvcIdle
    /\ it = ItIdle
    /\ mon = MonInit
    /\ job = JobIdle
    /\ hist = <<>>
    /\ sched = SchedIdle
    /\ kpi = KpiIdle

\* run_etl_job, lines 101-115: count the run, open its record
RunEtlJobStart ==
    /\ job.pc \in {"idle", "raised"}
    /\ job.run_count < MaxRuns
    /\ IF config.enable_metrics /\ MonitorFails(upstream, "start_run")
       THEN \* start_run is called before the try block: its exception leaves
            \* run_etl_job
            /\ job' = [job EXCEPT !.pc = "raised", !.run_count = @ + 1,
                                  !.exc = "OperationalError", !.monitor_run_id = 0]
            /\ mon' = mon
       ELSE /\ job' = [job EXCEPT !.pc = "service", !.run_count = @ + 1, !.exc = "",
                                  !.monitor_run_id = IF config.enable_metrics
                                                     THEN Len(mon.runs) + 1 ELSE 0]
            /\ mon' = IF config.enable_metrics THEN StartRun(mon) ELSE mon
    /\ UNCHANGED <<api, pu, stats, config, upstream, db, svc, it, hist, sched, kpi>>

\* run_etl_job, lines 118-120: TMDbETLService.__init__ on the first run
InitService ==
    /\ job.pc = "service"
    /\ IF svc.exists
       THEN /\ job' = [job EXCEPT !.pc = "begin"]
            /\ UNCHANGED <<svc, stats>>
       ELSE IF ~config.api_key
       THEN /\ job' = [job EXCEPT !.pc = "except", !.exc = "RuntimeError"]
            /\ UNCHANGED <<svc, stats>>
       ELSE /\ job' = [job EXCEPT !.pc = "begin"]
            /\ svc' = [SvcIdle EXCEPT !.exists = TRUE]
            /\ stats' = StatsInit
    /\ UNCHANGED <<api, pu, config, upstream, db, it, mon, hist, sched, kpi>>

\* run_full_etl, lines 816-828: reset the statistics, open the connection
RunFullEtlBegin ==
    /\ job.pc = "begin"
    /\ IF upstream.anomaly.kind = "db"
       THEN /\ stats' = Bump(StatsInit, "errors")
            /\ job' = [job EXCEPT !.pc = "except", !.exc = "OperationalError"]
            /\ UNCHANGED svc
       ELSE /\ stats' = StatsInit
            /\ svc' = [svc EXCEPT !.last = 0, !.http = 0, !.asked = <<>>,
                                   !.intx = FALSE, !.txhttp = 0]
            /\ job' = [job EXCEPT !.pc = "genres"]
    /\ UNCHANGED <<api, pu, config, upstream, db, it, mon, hist, sched, kpi>>

\* run_full_etl, lines 830-840: sync_genres, then enter process_movies
RunSyncGenres ==
    /\ job.pc = "genres"
    /\ LET r == SyncGenres(Sess, upstream, config)
       IN  IF r.raised
           THEN /\ stats' = Bump(r.s.st, "errors")
                /\ job' = [job EXCEPT !.pc = "except", !.exc = "RequestException"]
                /\ svc' = [svc EXCEPT !.last = r.s.last, !.http = r.s.http]
                /\ UNCHANGED <<db, it>>
           ELSE /\ stats' = r.s.st
                /\ db' = r.s.db
                /\ svc' = [svc EXCEPT !.last = r.s.last, !.http = r.s.http]
                /\ it' = IterStart("movie", config.movies)
                /\ job' = [job EXCEPT !.pc = "movies"]
    /\ UNCHANGED <<api, pu, config, upstream, mon, hist, sched, kpi>>

ListingTrouble ==
    IF /\ upstream.anomaly.kind = "listing"
       /\ upstream.anomaly.what = it.kind
       /\ upstream.anomaly.id = it.page
    THEN "fetch_transient"
    ELSE "good"

\* _iter_popular, lines 578-584 and 594-596: the while test and the page request
IterFetch ==
    /\ job.pc \in {"movies", "shows"}
    /\ ~it.done
    /\ it.buf = <<>>
    /\ IF ~WhileTest(it.collected, it.total)
       THEN /\ it' = [it EXCEPT !.done = TRUE]
            /\ UNCHANGED <<stats, svc>>
       ELSE LET c == Call(Sess, config, ListingTrouble)
                results == PageResults(ListingOf(upstream, it.kind), it.page)
            IN  /\ stats' = c.s.st
                /\ svc' = [svc EXCEPT !.http = c.s.http, !.txhttp = c.s.txhttp]
                /\ IF c.kind # "ok"
                   THEN it' = [it EXCEPT !.done = TRUE,
                                         !.pages = Append(@, <<it.page, "raised">>)]
                   ELSE IF PageEmpty(results)
                   THEN it' = [it EXCEPT !.done = TRUE,
                                         !.pages = Append(@, <<it.page, "empty">>)]
                   ELSE it' = [it EXCEPT !.buf = results,
                                         !.pages = Append(@, <<it.page, "results">>)]
    /\ UNCHANGED <<api, pu, config, upstream, db, mon, job, hist, sched, kpi>>

\* a generator that drops the result that follows the one it handed out
IterResumeSkipping(g) ==
    IF Tail(g.buf) = <<>>
    THEN [g EXCEPT !.collected = @ + 1, !.buf = <<>>, !.page = @ + 1,
                   !.yielded = Append(@, Head(g.buf))]
    ELSE [g EXCEPT !.collected = @ + 1, !.buf = <<>>, !.page = @ + 1,
                   !.yielded = Append(@, Head(Tail(g.buf)))]

\* _iter_popular, lines 586-592, after the consumer took Head(it.buf)
IterResume(g) ==
    IF LimitReached(g.collected + 1, g.total)
    THEN [g EXCEPT !.collected = @ + 1, !.buf = <<>>, !.page = @ + 1,
                   !.yielded = Append(@, Head(g.buf))]
    ELSE IF Tail(g.buf) = <<>>
    THEN [g EXCEPT !.collected = @ + 1, !.buf = <<>>, !.page = @ + 1,
                   !.yielded = Append(@, Head(g.buf))]
    ELSE [g EXCEPT !.collected = @ + 1, !.buf = Tail(@),
                   !.yielded = Append(@, Head(g.buf))]

\* process_movies / process_shows: one pass of the for loop over the generator
ProcessNext ==
    /\ job.pc \in {"movies", "shows"}
    /\ ~it.done
    /\ it.buf # <<>>
    /\ LET r == ProcessItem(Sess, svc.cache, upstream, config, it.kind, Head(it.buf))
       IN  /\ db' = r.s.db
           /\ stats' = r.s.st
           /\ svc' = [svc EXCEPT !.cache = r.cache, !.last = r.s.last, !.http = r.s.http,
                                  !.asked = r.s.asked, !.intx = r.s.intx,
                                  !.txhttp = r.s.txhttp]
    /\ it' = IterResume(it)
    /\ UNCHANGED <<api, pu, config, upstream, mon, job, hist, sched, kpi>>

\* run_full_etl, lines 840-843: process_movies returns, process_shows starts
ProcessMoviesEnd ==
    /\ job.pc = "movies"
    /\ it.done
    /\ it' = IterStart("show", config.shows)
    /\ job' = [job EXCEPT !.pc = "shows"]
    /\ UNCHANGED <<api, pu, stats, config, upstream, db, svc, mon, hist, sched, kpi>>

\* run_full_etl, lines 843-855: process_shows returns, cleanup_stale_data, close,
\* return the stats
ProcessShowsEnd ==
    /\ job.pc = "shows"
    /\ it.done
    /\ it' = ItIdle
    /\ db' = CleanupStaleData(db, config, Today)
    /\ hist' = Append(hist, [db |-> db', stats |-> stats])
    /\ job' = [job EXCEPT !.pc = "record"]
    /\ UNCHANGED <<api, pu, stats, config, upstream, svc, mon, sched, kpi>>

\* run_etl_job, lines 125-138: the success branch records the outcome
RecordSuccess ==
    /\ job.pc = "record"
    /\ IF config.enable_metrics /\ job.monitor_run_id # 0
          /\ MonitorFails(upstream, "end_run")
       THEN /\ mon' = mon
            /\ job' = [job EXCEPT !.pc = "except", !.last_run_status = "Success",
                                  !.exc = "OperationalError"]
       ELSE /\ mon' = IF config.enable_metrics /\ job.monitor_run_id # 0
                      THEN EndRun(mon, job.monitor_run_id, stats, "success", "")
                      ELSE mon
            /\ job' = [job EXCEPT !.pc = "kpi", !.last_run_status = "Success"]
    /\ UNCHANGED <<api, pu, stats, config, upstream, db, svc, it, hist, sched, kpi>>

\* run_etl_job, lines 140-154: self.config.get('kpi', {}).get('enabled', True)
\* raises AttributeError when the kpi key of the configuration is null
RunKpi ==
    /\ job.pc = "kpi"
    /\ job' = CASE config.kpi = "null" -> [job EXCEPT !.pc = "except", !.exc = "AttributeError"]
                [] config.kpi = "on" -> [job EXCEPT !.pc = "finish", !.kpi_runs = @ + 1]
                [] OTHER -> [job EXCEPT !.pc = "finish"]
    /\ UNCHANGED <<api, pu, stats, config, upstream, db, svc, it, mon, hist, sched, kpi>>

\* run_etl_job, lines 156-172: the except branch
HandleFailure ==
    /\ job.pc = "except"
    /\ IF config.enable_metrics /\ job.monitor_run_id # 0
          /\ MonitorFails(upstream, "end_run")
       THEN \* an exception raised inside the except branch leaves run_etl_job
            /\ mon' = mon
            /\ job' = [job EXCEPT !.pc = "raised", !.last_run_status = "Failed"]
       ELSE /\ mon' = IF config.enable_metrics /\ job.monitor_run_id # 0
                      THEN LogError(EndRun(mon, job.monitor_run_id,
                                           IF svc.exists THEN stats ELSE NoStats,
                                           "failed", job.exc),
                                    job.monitor_run_id, job.exc, job.exc)
                      ELSE mon
            /\ job' = [job EXCEPT !.pc = "finish", !.last_run_status = "Failed"]
    /\ UNCHANGED <<api, pu, stats, config, upstream, db, svc, it, hist, sched, kpi>>

\* run_etl_job, lines 174-176: the job returns to the scheduler
RunEtlJobEnd ==
    /\ job.pc = "finish"
    /\ job' = [job EXCEPT !.pc = "idle"]
    /\ UNCHANGED <<api, pu, stats, config, upstream, db, svc, it, mon, hist, sched, kpi>>

Next ==
    \/ RunEtlJobStart
    \/ InitService
    \/ RunFullEtlBegin
    \/ RunSyncGenres
    \/ IterFetch
    \/ ProcessNext
    \/ ProcessMoviesEnd
    \/ ProcessShowsEnd
    \/ RecordSuccess
    \/ RunKpi
    \/ HandleFailure
    \/ RunEtlJobEnd

Spec == Init /\ [][Next]_vars

(* ---------------------------------------------------------------------- *)
(* Specification of single _iter_popular generators driven to exhaustion   *)
(* ---------------------------------------------------------------------- *)
IterTotals == 0..MaxLimit

IterTroubles ==
    {NoAnomaly} \cup {[kind |-> "listing", id |-> pg, what |-> "movie"] : pg \in 1..2}

\* a generator over /movie/popular right after process_movies created it
InitIter ==
    /\ api = ApiIdle
    /\ pu = PuIdle
    /\ stats = StatsInit
    /\ config \in {[BaseConfig EXCEPT !.movies = l] : l \in IterTotals}
    /\ \E ml \in Listings, a \in IterTroubles :
          upstream = [movieList |-> ml, showList |-> <<>>, anomaly |-> a, since |-> 1]
    /\ db = EmptyDb
    /\ svc = [SvcIdle EXCEPT !.exists = TRUE]
    /\ it = IterStart("movie", config.movies)
    /\ mon = MonInit
    /\ job = [JobIdle EXCEPT !.pc = "movies", !.run_count = 1]
    /\ hist = <<>>
    /\ sched = SchedIdle
    /\ kpi = KpiIdle

\* _iter_popular, lines 586-592: the generator hands out one result and is
\* resumed by its consumer
IterYield ==
    /\ job.pc \in {"movies", "shows"}
    /\ ~it.done
    /\ it.buf # <<>>
    /\ it' = IterResume(it)
    /\ UNCHANGED <<api, pu, stats, config, upstream, db, svc, mon, job, hist, sched, kpi>>

NextIter ==
    \/ IterFetch
    \/ IterYield

\* the for loop over the generator keeps asking for the next result
SpecIter == InitIter /\ [][NextIter]_vars /\ WF_vars(IterFetch) /\ WF_vars(IterYield)

(* ---------------------------------------------------------------------- *)
(* Specification of ETLScheduler.start: the registered job fired by the    *)
(* BackgroundScheduler's thread pool and the startup run of the main thread *)
(* ---------------------------------------------------------------------- *)
\* add_job without max_instances: the executor runs at most this many instances
\* of the job it submitted itself
MaxInstances == 1

InitSched ==
    /\ api = ApiIdle
    /\ pu = PuIdle
    /\ stats = StatsInit
    /\ config \in {[BaseConfig EXCEPT !.run_on_startup = b] : b \in BOOLEAN}
    /\ upstream = UpstreamIdle
    /\ db = EmptyDb
    /\ svc = SvcIdle
    /\ it = ItIdle
    /\ mon = MonInit
    /\ job = JobIdle
    /\ hist = <<>>
    /\ sched = SchedIdle
    /\ kpi = KpiIdle

Running(t) == sched.th[t].pc # "idle"

\* ETLScheduler.start: add_job, scheduler.start(), then the startup run is
\* called in the calling thread
SchedulerStart ==
    /\ sched.main = "created"
    /\ sched' = IF config.run_on_startup
                THEN [sched EXCEPT !.running = TRUE, !.main = "startup",
                                   !.th["main"].pc = "begin"]
                ELSE [sched EXCEPT !.running = TRUE, !.main = "waiting"]
    /\ UNCHANGED <<api, pu, stats, config, upstream, db, svc, it, mon, job, hist, kpi>>

\* the trigger of job tmdb_etl_job is due: the scheduler thread submits the job
\* to its executor, which refuses it while MaxInstances instances it submitted
\* are still running
TriggerFires ==
    /\ sched.running
    /\ sched.fired < MaxFirings
    /\ sched' = IF sched.instances >= MaxInstances
                THEN [sched EXCEPT !.fired = @ + 1, !.skipped = @ + 1]
                ELSE [sched EXCEPT !.fired = @ + 1, !.instances = @ + 1,
                                   !.th["pool"].pc = "begin"]
    /\ UNCHANGED <<api, pu, stats, config, upstream, db, svc, it, mon, job, hist, kpi>>

\* run_etl_job, lines 101-115, in thread t
JobBegin(t) ==
    /\ sched.th[t].pc = "begin"
    /\ job' = [job EXCEPT !.run_count = @ + 1]
    /\ mon' = IF config.enable_metrics THEN StartRun(mon) ELSE mon
    /\ sched' = [sched EXCEPT !.th[t] = [pc |-> "etl",
                                         monitor_run_id |-> IF config.enable_metrics
                                                            THEN Len(mon.runs) + 1 ELSE 0]]
    /\ UNCHANGED <<api, pu, stats, config, upstream, db, svc, it, hist, kpi>>

\* run_full_etl over an upstream whose popular listings are empty
RunFullEtlEmptyListings(s, cfg) ==
    LET g == SyncGenres([s EXCEPT !.st = StatsInit], UpstreamIdle, cfg)
        m == Call(g.s, cfg, "good")
    IN  Call(m.s, cfg, "good").s

\* run_etl_job, lines 117-123, in thread t; a run that shares the store with
\* another running thread may or may not time out on the lock
JobRunFullEtl(t) ==
    /\ sched.th[t].pc = "etl"
    /\ \E outcome \in IF \E u \in Threads \ {t} : Running(u)
                      THEN {"ok", "locked"} ELSE {"ok"} :
         IF outcome = "ok"
         THEN LET s == RunFullEtlEmptyListings(Sess, config)
              IN  /\ db' = s.db
                  /\ stats' = s.st
                  /\ svc' = [svc EXCEPT !.exists = TRUE, !.last = s.last, !.http = s.http]
                  /\ sched' = [sched EXCEPT !.th[t].pc = "record"]
         ELSE /\ stats' = Bump(StatsInit, "errors")
              /\ svc' = [svc EXCEPT !.exists = TRUE]
              /\ sched' = [sched EXCEPT !.th[t].pc = "except"]
              /\ UNCHANGED db
    /\ UNCHANGED <<api, pu, config, upstream, it, mon, job, hist, kpi>>

\* run_etl_job, lines 125-154, in thread t
JobRecord(t) ==
    /\ sched.th[t].pc = "record"
    /\ mon' = IF config.enable_metrics /\ sched.th[t].monitor_run_id # 0
              THEN EndRun(mon, sched.th[t].monitor_run_id, stats, "success", "")
              ELSE mon
    /\ job' = [job EXCEPT !.last_run_status = "Success",
                          !.kpi_runs = IF config.kpi = "on" THEN @ + 1 ELSE @]
    /\ sched' = [sched EXCEPT !.th[t].pc = "finish"]
    /\ UNCHANGED <<api, pu, stats, config, upstream, db, svc, it, hist, kpi>>

\* run_etl_job, lines 156-172, in thread t
JobExcept(t) ==
    /\ sched.th[t].pc = "except"
    /\ mon' = IF config.enable_metrics /\ sched.th[t].monitor_run_id # 0
              THEN LogError(EndRun(mon, sched.th[t].monitor_run_id, stats, "failed",
                                   "OperationalError"),
                            sched.th[t].monitor_run_id, "OperationalError",
                            "OperationalError")
              ELSE mon
    /\ job' = [job EXCEPT !.last_run_status = "Failed"]
    /\ sched' = [sched EXCEPT !.th[t].pc = "finish"]
    /\ UNCHANGED <<api, pu, stats, config, upstream, db, svc, it, hist, kpi>>

\* run_etl_job returns: to start() in the main thread, to the executor, which
\* releases the instance, in a pool thread
JobReturn(t) ==
    /\ sched.th[t].pc = "finish"
    /\ sched' = IF t = "main"
                THEN [sched EXCEPT !.th[t].pc = "idle", !.main = "waiting"]
                ELSE [sched EXCEPT !.th[t].pc = "idle", !.instances = @ - 1]
    /\ UNCHANGED <<api, pu, stats, config, upstream, db, svc, it, mon, job, hist, kpi>>

\* ETLScheduler.stop: scheduler.shutdown() stops the triggers ...
SchedulerStop ==
    /\ sched.main = "waiting"
    /\ sched.running
    /\ sched' = [sched EXCEPT !.running = FALSE, !.main = "stopping"]
    /\ UNCHANGED <<api, pu, stats, config, upstream, db, svc, it, mon, job, hist, kpi>>

\* ... and returns once the executor's running job has finished
SchedulerStopped ==
    /\ sched.main = "stopping"
    /\ ~Running("pool")
    /\ sched' = [sched EXCEPT !.main = "exited"]
    /\ UNCHANGED <<api, pu, stats, config, upstream, db, svc, it, mon, job, hist, kpi>>

\* run_etl_scheduler.py signal_handler: SIGINT or SIGTERM arrives while the main
\* thread is in scheduler.start() or in the sleep loop; sys.exit(0) raises
\* SystemExit there, which no handler of main or of run_etl_job catches; the
\* interpreter then waits for the executor's worker before the process ends
SignalExit ==
    /\ sched.main \in {"startup", "waiting"}
    /\ sched' = [sched EXCEPT !.running = FALSE, !.main = "stopping",
                              !.th["main"].pc = "idle", !.exit_code = 0]
    /\ UNCHANGED <<api, pu, stats, config, upstream, db, svc, it, mon, job, hist, kpi>>

NextSched ==
    \/ SignalExit
    \/ SchedulerStart
    \/ TriggerFires
    \/ \E t \in Threads : JobBegin(t)
    \/ \E t \in Threads : JobRunFullEtl(t)
    \/ \E t \in Threads : JobRecord(t)
    \/ \E t \in Threads : JobExcept(t)
    \/ \E t \in Threads : JobReturn(t)
    \/ SchedulerStop
    \/ SchedulerStopped

SpecSched == InitSched /\ [][NextSched]_vars

(* ---------------------------------------------------------------------- *)
(* Specification of run_etl_scheduler.py --run-once                        *)
(* ---------------------------------------------------------------------- *)
InitOnce ==
    /\ api = ApiIdle
    /\ pu = PuIdle
    /\ stats = StatsInit
    /\ \/ /\ config \in Configs
          /\ \E ml \in Listings, sl \in ShowListings :
                upstream = [movieList |-> ml, showList |-> sl, anomaly |-> NoAnomaly,
                            since |-> 1]
       \/ /\ config = BaseConfig
          /\ \E a \in {x \in Anomalies : x.kind \in {"db", "listing", "genres"}} :
                upstream = [movieList |-> <<1>>, showList |-> <<>>, anomaly |-> a,
                            since |-> 1]
    /\ db = EmptyDb
    /\ svc = SvcIdle
    /\ it = ItIdle
    /\ mon = MonInit
    /\ job = JobIdle
    /\ hist = <<>>
    /\ sched = SchedIdle
    /\ kpi = KpiIdle

\* main() of run_etl_scheduler.py up to the construction of the scheduler: the
\* configuration file exists; without TMDB_API_KEY it returns 1
RunOnceMain ==
    /\ sched.main = "created"
    /\ sched' = IF config.api_key
                THEN [sched EXCEPT !.main = "run_once"]
                ELSE [sched EXCEPT !.main = "exited", !.exit_code = 1]
    /\ UNCHANGED <<api, pu, stats, config, upstream, db, svc, it, mon, job, hist, kpi>>

\* if args.run_once: scheduler.run_etl_job()
RunOnceJob ==
    /\ sched.main = "run_once"
    /\ job.run_count = 0
    /\ RunEtlJobStart

\* run_etl_job has returned: print, return 0
RunOnceReturn ==
    /\ sched.main = "run_once"
    /\ job.run_count = 1
    /\ job.pc = "idle"
    /\ sched' = [sched EXCEPT !.main = "exited", !.exit_code = 0]
    /\ UNCHANGED <<api, pu, stats, config, upstream, db, svc, it, mon, job, hist, kpi>>

NextOnce ==
    \/ RunOnceMain
    \/ RunOnceJob
    \/ InitService
    \/ RunFullEtlBegin
    \/ RunSyncGenres
    \/ IterFetch
    \/ ProcessNext
    \/ ProcessMoviesEnd
    \/ ProcessShowsEnd
    \/ RecordSuccess
    \/ RunKpi
    \/ HandleFailure
    \/ RunEtlJobEnd
    \/ RunOnceReturn

SpecOnce == InitOnce /\ [][NextOnce]_vars

(* ---------------------------------------------------------------------- *)
(* Specification SpecKpi: runs of KPIService.run_kpi_computation            *)
(* ---------------------------------------------------------------------- *)
InitKpi ==
    /\ api = ApiIdle
    /\ pu = PuIdle
    /\ stats = StatsInit
    /\ config = BaseConfig
    /\ upstream = UpstreamIdle
    /\ db = EmptyDb
    /\ svc = SvcIdle
    /\ it = ItIdle
    /\ mon = MonInit
    /\ job = JobIdle
    /\ hist = <<>>
    /\ sched = SchedIdle
    /\ kpi = KpiIdle

\* run_kpi_computation, lines 614-629: reset the stats, connect, ensure the table
KpiBegin ==
    /\ kpi.pc \in {"idle", "returned", "raised"}
    /\ kpi.run < MaxKpiRuns
    /\ \E f \in KpiFailures :
          kpi' = [kpi EXCEPT !.pc = "compute", !.run = @ + 1, !.fail = f, !.next = 1,
                             !.stats = KpiStatsInit, !.pending = {}, !.result = "none"]
    /\ UNCHANGED <<api, pu, stats, config, upstream, db, svc, it, mon, job, hist, sched>>

\* run_kpi_computation, lines 631-636: the next compute_* call
KpiCompute ==
    /\ kpi.pc = "compute"
    /\ LET r == ComputeCategory(kpi, KpiCategories[kpi.next], 1)
       IN  kpi' = IF r.raised
                  THEN [r.k EXCEPT !.pc = "except"]
                  ELSE IF kpi.next = Len(KpiCategories)
                  THEN [r.k EXCEPT !.pc = "commit"]
                  ELSE [r.k EXCEPT !.next = @ + 1]
    /\ UNCHANGED <<api, pu, stats, config, upstream, db, svc, it, mon, job, hist, sched>>

\* run_kpi_computation, lines 638-651: commit, close, return the stats
KpiCommit ==
    /\ kpi.pc = "commit"
    /\ kpi' = [kpi EXCEPT !.pc = "returned", !.table = CommitKpis(@, kpi.pending),
                          !.pending = {}, !.stats.execution_time = 1,
                          !.result = "stats"]
    /\ UNCHANGED <<api, pu, stats, config, upstream, db, svc, it, mon, job, hist, sched>>

\* run_kpi_computation, lines 653-656: count the error and re-raise; the
\* connection is dropped with its transaction uncommitted
KpiExcept ==
    /\ kpi.pc = "except"
    /\ kpi' = [kpi EXCEPT !.pc = "raised", !.pending = {}, !.stats.errors = @ + 1,
                          !.result = "exception"]
    /\ UNCHANGED <<api, pu, stats, config, upstream, db, svc, it, mon, job, hist, sched>>

NextKpi == KpiBegin \/ KpiCompute \/ KpiCommit \/ KpiExcept

SpecKpi == InitKpi /\ [][NextKpi]_vars

(* ---------------------------------------------------------------------- *)
(* C3                                                                      *)
(* ---------------------------------------------------------------------- *)
NoRate(log) == SelectSeq(log, LAMBDA e : e[1] # "rate")

AllTransient(a) ==
    /\ a.calls > 0
    /\ a.max_retries >= 1
    /\ \A i \in 1..a.max_retries : a.outcomes[i] = "transient"

\* C3: when every attempt of one _api_get call fails with a transient error and
\* max_retries = k >= 1, exactly k HTTP attempts are made, the last error is
\* re-raised, the backoff sleep between attempt i and attempt i+1 is 2^(i-1)
\* seconds (1, 2, 4, ...), and nothing follows the final attempt.
C3_RetryBound ==
    AllTransient(api) =>
        /\ api.http = api.max_retries
        /\ api.kind = "raise_transient"
        /\ Len(NoRate(api.log)) = 2 * api.max_retries - 1
        /\ \A i \in 1..Len(NoRate(api.log)) :
               NoRate(api.log)[i] = IF i % 2 = 1
                                    THEN <<"http", (i + 1) \div 2>>
                                    ELSE <<"backoff", 2 ^ ((i \div 2) - 1)>>
        /\ api.log[Len(api.log)] = <<"http", api.max_retries>>

C3_Witness ==
    /\ AllTransient(api)
    /\ api.max_retries = 3
    /\ NoRate(api.log) = << <<"http", 1>>, <<"backoff", 1>>, <<"http", 2>>,
                            <<"backoff", 2>>, <<"http", 3>> >>

(* ---------------------------------------------------------------------- *)
(* C8                                                                      *)
(* ---------------------------------------------------------------------- *)
PuOld == CHOOSE r \in pu.before : TRUE

PuNew == CHOOSE r \in pu.after : r.tmdb_person_id = PuOld.tmdb_person_id

Incoming(pd, f) ==
    IF f \in {"imdb_id", "instagram_id", "twitter_id", "facebook_id"}
    THEN ExternalId(pd, f)
    ELSE pd[f]

NullOrEmpty(v) == v = NULL \/ v = <<>>

PuUpdated == pu.phase = "done" /\ pu.before # {}

CleanedMergeFields == {"biography", "place_of_birth"}

RawMergeFields ==
    {"birthday", "deathday", "imdb_id", "instagram_id", "twitter_id", "facebook_id"}

\* C8 as stated: a null or empty new value leaves a stored non-null biography,
\* birthday, deathday, place of birth and external-link identifier unchanged.
C8_AsStated ==
    PuUpdated =>
        \A f \in CleanedMergeFields \cup RawMergeFields :
            (PuOld[f] # NULL /\ NullOrEmpty(Incoming(pu.pd, f))) => PuNew[f] = PuOld[f]

\* C8 (amended): upserting a person over an existing row keeps a stored non-null
\* biography and place of birth when the new value is null or empty, and keeps a
\* stored non-null birthday, deathday and external-link identifier when the new
\* value is null; the upsert adds no row.
C8_CastMerge ==
    PuUpdated =>
        /\ \A f \in CleanedMergeFields :
              (PuOld[f] # NULL /\ NullOrEmpty(Incoming(pu.pd, f))) => PuNew[f] = PuOld[f]
        /\ \A f \in RawMergeFields :
              (PuOld[f] # NULL /\ Incoming(pu.pd, f) = NULL) => PuNew[f] = PuOld[f]
        /\ Cardinality(pu.after) = 1

C8_Witness ==
    /\ PuUpdated
    /\ PuOld.biography = <<"a">>
    /\ PuOld.birthday = <<"a">>
    /\ pu.pd.biography = NULL
    /\ pu.pd.birthday = NULL
    /\ PuNew.biography = <<"a">>

(* ---------------------------------------------------------------------- *)
(* C1                                                                      *)
(* ---------------------------------------------------------------------- *)
CatalogTables ==
    {"movies", "shows", "people", "movie_cast", "show_cast", "movie_genres",
     "show_genres", "seasons", "episodes"}

NoDuplicateIds(d) ==
    \A t \in {"movies", "shows"} :
        \A r1, r2 \in d[t] : r1.tmdb_id = r2.tmdb_id => r1 = r2

\* C1: after two runs of run_full_etl against the unchanged upstream, every catalog
\* table has as many rows as after the first run, no external id occurs twice in
\* a media type, and the second run counted no movie and no show as inserted.
C1_Idempotence ==
    Len(hist) >= 2 =>
        /\ \A t \in CatalogTables :
              Cardinality(hist[2].db[t]) = Cardinality(hist[1].db[t])
        /\ NoDuplicateIds(hist[2].db)
        /\ hist[2].stats.movies_inserted = 0
        /\ hist[2].stats.shows_inserted = 0

(* ---------------------------------------------------------------------- *)
(* C5                                                                      *)
(* ---------------------------------------------------------------------- *)
AtItem == job.pc \in {"movies", "shows"} /\ ~it.done /\ it.buf # <<>>

LowVotesNext ==
    /\ AtItem
    /\ What(upstream, it.kind, Head(it.buf)) \notin {"fetch_transient", "fetch_other"}
    /\ DetailOf(upstream, it.kind, Head(it.buf)).vote_count < config.min_vote_count

\* C5: processing an item whose vote count is below the configured minimum,
\* whatever its popularity, writes nothing to the catalog tables, adds one to the
\* skipped counter of its media type, leaves the error counter alone, and the loop
\* goes on to the next item.
C5_QualityGate ==
    [][LowVotesNext =>
          /\ db' = db
          /\ stats'[StatKey(it.kind, "skipped")] = stats[StatKey(it.kind, "skipped")] + 1
          /\ stats'.errors = stats.errors
          /\ job'.pc = job.pc
          /\ it'.collected = it.collected + 1]_vars

C5_Witness ==
    /\ upstream.anomaly = [kind |-> "movie", id |-> 1, what |-> "low_votes"]
    /\ DetailOf(upstream, "movie", 1).popularity >= config.min_popularity
    /\ stats.movies_skipped = 1
    /\ stats.movies_processed = 2
    /\ stats.movies_inserted = 1
    /\ stats.errors = 0

(* ---------------------------------------------------------------------- *)
(* C9                                                                      *)
(* ---------------------------------------------------------------------- *)
Distinct(l) == \A i, j \in 1..Len(l) : l[i] = l[j] => i = j

AllMoviesGood ==
    /\ upstream.anomaly.kind \notin {"db"}
    /\ ~(upstream.anomaly.kind = "listing" /\ upstream.anomaly.what = "movie")
    /\ \A i \in 1..Len(upstream.movieList) :
          What(upstream, "movie", upstream.movieList[i]) \in {"good", "fetch_flaky"}

\* C9: with movie limit L on an empty store and an upstream listing of more than
\* L distinct movies that all pass the quality gate and persist without error,
\* the run leaves exactly L movie rows and ends with movies_processed = L,
\* movies_inserted = L and movies_skipped = 0.
C9_ListingLimit ==
    (/\ Len(hist) >= 1
     /\ Distinct(upstream.movieList)
     /\ Len(upstream.movieList) > config.movies
     /\ AllMoviesGood)
    => /\ Cardinality(hist[1].db.movies) = config.movies
       /\ hist[1].stats.movies_processed = config.movies
       /\ hist[1].stats.movies_inserted = config.movies
       /\ hist[1].stats.movies_skipped = 0

C9_Witness ==
    /\ Len(hist) >= 1
    /\ config.movies = 2
    /\ upstream.movieList = <<1, 2, 3>>
    /\ AllMoviesGood
    /\ Cardinality(hist[1].db.movies) = 2
    /\ hist[1].stats.movies_inserted = 2

(* ---------------------------------------------------------------------- *)
(* C2                                                                      *)
(* ---------------------------------------------------------------------- *)
ErrorsOfRun(run_id) == SelectSeq(mon.errors, LAMBDA e : e.run_id = run_id)

OneDetailFetchRaises ==
    /\ upstream.anomaly.kind = "movie"
    /\ upstream.anomaly.what = "fetch_other"
    /\ \E i \in 1..Len(upstream.movieList) : upstream.movieList[i] = upstream.anomaly.id
    /\ Distinct(upstream.movieList)
    /\ Len(upstream.movieList) <= config.movies

FirstRunRecorded ==
    /\ Len(hist) >= 1
    /\ Len(mon.runs) >= 1
    /\ mon.runs[1].status # "running"

\* C2: in a run over a listing of N movies of which exactly one raises an
\* unexpected exception in its detail fetch while the others pass, N-1 movies are
\* persisted, exactly one SyncError entry is logged for the run in the Run
\* Monitor's error log, and the run's recorded status is success.
C2_PartialFailure ==
    (OneDetailFetchRaises /\ FirstRunRecorded) =>
        /\ Cardinality(hist[1].db.movies) = Len(upstream.movieList) - 1
        /\ Len(ErrorsOfRun(1)) = 1
        /\ mon.runs[1].status = "success"

(* ---------------------------------------------------------------------- *)
(* C4                                                                      *)
(* ---------------------------------------------------------------------- *)
IterRunning == it.kind # "none"

FirstPageEmpty == PageResults(ListingOf(upstream, it.kind), 1) = <<>>

IterSafety ==
    IterRunning =>
        /\ Len(it.yielded) <= it.total
        /\ \A i \in 1..Len(it.pages) : it.pages[i][1] = i
        /\ \A i \in 1..(Len(it.pages) - 1) : it.pages[i][2] = "results"

\* C4 as stated: _iter_popular terminates, yields at most the target count,
\* requests pages 1, 2, 3, ... in order and none after an empty page; when page 1
\* is empty it yields nothing and the listing endpoint is called exactly once.
C4_AsStated ==
    /\ [](IterSafety
          /\ ((IterRunning /\ it.done /\ FirstPageEmpty /\ ListingTrouble = "good")
                => (it.yielded = <<>> /\ Len(it.pages) = 1)))
    /\ (IterRunning /\ ~it.done) ~> it.done

\* C4 (amended): _iter_popular terminates, yields at most the target count,
\* requests pages 1, 2, 3, ... in order and none after an empty page; when page 1
\* is empty it yields nothing and the listing endpoint is called exactly once if
\* the target count is at least 1, and not at all if the target count is 0.
C4_Pagination ==
    /\ [](IterSafety
          /\ ((IterRunning /\ it.done /\ FirstPageEmpty /\ ListingTrouble = "good")
                => /\ it.yielded = <<>>
                   /\ Len(it.pages) = IF it.total >= 1 THEN 1 ELSE 0))
    /\ (IterRunning /\ ~it.done) ~> it.done

C4_Witness ==
    /\ IterRunning
    /\ it.done
    /\ it.kind = "movie"
    /\ it.total = 2
    /\ upstream.movieList = <<>>
    /\ it.pages = << <<1, "empty">> >>
    /\ it.yielded = <<>>

(* ---------------------------------------------------------------------- *)
(* C7                                                                      *)
(* ---------------------------------------------------------------------- *)
Sealed(row) == row.status \in {"success", "failed"}

\* C7: a run record's status moves only from running to success or failed, and
\* once it holds success or failed no step changes its status, end time or
\* counters.
C7_TerminalStatus ==
    [][\A i \in DOMAIN mon.runs :
          /\ Sealed(mon.runs[i]) => mon'.runs[i] = mon.runs[i]
          /\ mon'.runs[i].status # mon.runs[i].status => mon.runs[i].status = "running"]_vars

(* ---------------------------------------------------------------------- *)
(* C10                                                                     *)
(* ---------------------------------------------------------------------- *)
GenreSyncFails == upstream.anomaly.kind = "genres"

C6_NonOverlapping == Cardinality({t \in Threads : Running(t)}) <= 1

(* ---------------------------------------------------------------------- *)
(* C11                                                                     *)
(* ---------------------------------------------------------------------- *)
\* the first page of a popular listing that the run asks for exhausts its retries
ListingCallFails ==
    /\ upstream.anomaly.kind = "listing"
    /\ upstream.anomaly.id = 1
    /\ (IF upstream.anomaly.what = "movie" THEN config.movies ELSE config.shows) >= 1

\* C11: when a call to a popular-listing page exhausts its retries the run's
\* terminal status is failed; a run ends in success only when no listing call
\* failed.
C11_ListingFailure ==
    (ListingCallFails /\ job.pc = "finish" /\ job.monitor_run_id # 0)
        => mon.runs[job.monitor_run_id].status = "failed"

(* ---------------------------------------------------------------------- *)
(* C12                                                                     *)
(* ---------------------------------------------------------------------- *)
\* C12: the run-once entry point returns exit code 0 exactly when the run ended
\* in success, and a non-zero exit code when the run ended in failure.
C12_RunOnceExitCode ==
    sched.main = "exited" => (sched.exit_code = 0 <=> job.last_run_status = "Success")

(* ---------------------------------------------------------------------- *)
(* C13                                                                     *)
(* ---------------------------------------------------------------------- *)
ProcessedCount == stats.movies_processed + stats.shows_processed

MovieWork ==
    <<db.movies, db.movie_genres, db.movie_cast, stats.movies_processed,
      stats.movies_inserted, stats.movies_updated, stats.movies_skipped>>

\* C13: in a run every genre write precedes the first movie or show request, every
\* movie is completely processed before the first show listing request, and the
\* items of a listing are processed in the order the upstream returned them.
C13_Ordering ==
    [][/\ db'.genres # db.genres => job.pc = "genres"
       /\ job'.pc = "genres" => job.pc \in {"begin", "genres"}
       /\ job'.pc = "movies" => job.pc \in {"genres", "movies"}
       /\ job'.pc = "shows" => job.pc \in {"movies", "shows"}
       /\ svc'.http > svc.http => job.pc \in {"genres", "movies", "shows"}
       /\ (job.pc = "movies" /\ job'.pc = "shows") => it.done
       /\ it'.kind = "show" => job'.pc = "shows"
       /\ it'.kind = "movie" => job'.pc = "movies"
       /\ (MovieWork' # MovieWork /\ job.pc # "begin" /\ job'.pc # "record") =>
             (job.pc = "movies" /\ it.kind = "movie")
       /\ (ProcessedCount' = ProcessedCount + 1 /\ job.pc \in {"movies", "shows"}) =>
             /\ Len(it.yielded) < Len(ListingOf(upstream, it.kind))
             /\ it.buf # <<>>
             /\ Head(it.buf) = ListingOf(upstream, it.kind)[Len(it.yielded) + 1]
             /\ it'.yielded = Append(it.yielded, Head(it.buf))]_vars

C13_Witness ==
    /\ job.pc = "shows"
    /\ upstream.movieList = <<1, 2>>
    /\ it.kind = "show"
    /\ it.yielded = <<1>>
    /\ stats.movies_processed = 2
    /\ stats.shows_processed = 1
    /\ Cardinality(db.movies) = 2
    /\ db.genres # {}

(* ---------------------------------------------------------------------- *)
(* C14                                                                     *)
(* ---------------------------------------------------------------------- *)
\* every write the item makes is in the store d: its row, its genre links, its
\* people and cast rows, and for a show its seasons
ItemStored(d, cfg, kind, id, detail) ==
    /\ \E r \in d[ItemTable(kind)] : r.tmdb_id = id
    /\ \A r \in d[ItemTable(kind)] : r.tmdb_id = id =>
          /\ \A i \in 1..Len(detail.genres) :
                \A g \in d.genres : g.tmdb_genre_id = detail.genres[i] =>
                   \E l \in d[GenreLinkTable(kind)] :
                      l.item_id = r.rowid /\ l.genre_id = g.rowid
          /\ \A i \in 1..Len(Take(detail.cast, cfg.max_cast)) :
                \E p \in d.people :
                   /\ p.tmdb_person_id = detail.cast[i].id
                   /\ \E c \in d[CastTable(kind)] :
                         c.item_id = r.rowid /\ c.person_id = p.rowid
          /\ \A i \in 1..Len(detail.seasons) :
                detail.seasons[i] # 0 =>
                   \E sn \in d.seasons :
                      sn.show_id = r.rowid /\ sn.season_number = detail.seasons[i]

\* the step processes the item at the head of the buffer
ItemStep ==
    /\ job.pc \in {"movies", "shows"}
    /\ it.buf # <<>>
    /\ ProcessedCount' = ProcessedCount + 1

\* C14: after an item is processed either all of its writes are in the store or
\* the store is as it was before the item; an exception in the middle of the
\* item's writes leaves no row of it behind.
C14_ItemAtomicity ==
    [][ItemStep =>
          /\ \/ db' = db
             \/ ItemStored(db', config, it.kind, Head(it.buf),
                           DetailOf(upstream, it.kind, Head(it.buf)))
          /\ (/\ What(upstream, it.kind, Head(it.buf)) = "cast_fail"
              /\ CastOf(Head(it.buf)) # <<>>) => db' = db]_vars

C14_Witness ==
    /\ upstream.anomaly = [kind |-> "movie", id |-> 1, what |-> "cast_fail"]
    /\ upstream.movieList = <<1, 2>>
    /\ job.run_count = 1
    /\ stats.movies_processed = 2
    /\ stats.errors = 1
    /\ {r.tmdb_id : r \in db.movies} = {2}
    /\ db.movie_genres # {}
    /\ db.people = {}
    /\ db.movie_cast = {}

(* ---------------------------------------------------------------------- *)
(* C15                                                                     *)
(* ---------------------------------------------------------------------- *)
\* a row with the external id of the item at the head of the buffer is stored
ExistedBefore == \E r \in db[ItemTable(it.kind)] : r.tmdb_id = Head(it.buf)

\* C15: an upsert is counted as inserted exactly when no row with the item's
\* external id existed before it, and as updated exactly when one existed, also
\* after other inserts on the connection and when the item comes twice in a run.
C15_UpsertOutcome ==
    [][ItemStep =>
          /\ stats'[StatKey(it.kind, "inserted")] # stats[StatKey(it.kind, "inserted")] =>
                ~ExistedBefore
          /\ stats'[StatKey(it.kind, "updated")] # stats[StatKey(it.kind, "updated")] =>
                ExistedBefore]_vars

(* ---------------------------------------------------------------------- *)
(* C16                                                                     *)
(* ---------------------------------------------------------------------- *)
\* C16: after an upsert the table holds at most one row per external id, and an
\* upsert that hits an existing row overwrites its descriptive fields with the
\* new values and leaves its external id and its row id as they were.
C16_NaturalKey ==
    pu.phase = "done" =>
       /\ \A r1 \in pu.after, r2 \in pu.after : r1.tmdb_id = r2.tmdb_id => r1 = r2
       /\ \A r \in pu.before :
             r.tmdb_id = pu.pd.tmdb_id =>
                [rowid |-> r.rowid, tmdb_id |-> r.tmdb_id, title |-> pu.pd.title,
                 popularity |-> pu.pd.popularity, created_at |-> r.created_at]
                   \in pu.after

C16_Witness ==
    /\ pu.phase = "done"
    /\ Cardinality(pu.before) = 2
    /\ Cardinality(pu.after) = 2
    /\ \E r \in pu.before :
          /\ r.tmdb_id = pu.pd.tmdb_id
          /\ r.title # pu.pd.title
          /\ r.popularity # pu.pd.popularity

(* ---------------------------------------------------------------------- *)
(* C17                                                                     *)
(* ---------------------------------------------------------------------- *)
\* C17: the API-call counter equals the number of HTTP attempts issued, the
\* failed and the retried ones included.
C17_ApiCallCounter ==
    api.kind # "none" => stats.api_calls = api.http

(* ---------------------------------------------------------------------- *)
(* C18                                                                     *)
(* ---------------------------------------------------------------------- *)
\* C18: within one run the detail of a person id is requested from the upstream
\* at most once; later items reuse the result, also when the first fetch failed.
C18_PersonFetchedOnce ==
    \A i \in 1..Len(svc.asked), j \in 1..Len(svc.asked) :
       svc.asked[i] = svc.asked[j] => i = j

(* ---------------------------------------------------------------------- *)
(* C19                                                                     *)
(* ---------------------------------------------------------------------- *)
\* C19: the person cache is empty when a run starts its work.
C19_CacheRunScoped ==
    job.pc = "genres" => svc.cache = {}

(* ---------------------------------------------------------------------- *)
(* C20                                                                     *)
(* ---------------------------------------------------------------------- *)
\* every KPI of the category is in the table with the value of the current run
CategoryComputed(category) ==
    \A i \in 1..Len(KpiNames(category)) :
       [category |-> category, kpi_name |-> KpiNames(category)[i],
        computed_at |-> kpi.run] \in kpi.table

\* C20: when a KPI category raises, the other categories are still computed, and
\* run_kpi_computation returns a result that carries the number of KPIs computed
\* and the number of computation errors.
C20_KpiIsolation ==
    kpi.pc \in {"returned", "raised"} =>
       /\ kpi.result = "stats"
       /\ \A c \in 1..Len(KpiCategories) :
             KpiCategories[c] # kpi.fail.category => CategoryComputed(KpiCategories[c])
       /\ kpi.stats.errors = IF kpi.fail = KpiNoFail THEN 0 ELSE 1

(* ---------------------------------------------------------------------- *)
(* C21                                                                     *)
(* ---------------------------------------------------------------------- *)
\* the external ids the current run upserted when nothing is wrong upstream
UpsertedInRun(kind) ==
    {ListingOf(upstream, kind)[i] :
        i \in 1..(IF Len(ListingOf(upstream, kind)) <= (IF kind = "movie" THEN config.movies
                                                         ELSE config.shows)
                  THEN Len(ListingOf(upstream, kind))
                  ELSE (IF kind = "movie" THEN config.movies ELSE config.shows))}

ExternalIds(d, kind) == {r.tmdb_id : r \in d[ItemTable(kind)]}

\* C22: with the stale cleanup disabled no step removes an item row: the external
\* ids stored for a media type only grow, and a stored item that a later run
\* skips or fails to process keeps its row with the values last persisted.
C22_NoImplicitDeletion ==
    [][config.cleanup_stale_days = 0 =>
          \A kind \in Kinds :
             /\ ExternalIds(db, kind) \subseteq ExternalIds(db', kind)
             /\ \A r \in db[ItemTable(kind)] :
                   /\ \E q \in db'[ItemTable(kind)] :
                         q.rowid = r.rowid /\ q.tmdb_id = r.tmdb_id
                   /\ (ItemStep /\ stats'[StatKey(it.kind, "inserted")]
                                     + stats'[StatKey(it.kind, "updated")]
                                   = stats[StatKey(it.kind, "inserted")]
                                     + stats[StatKey(it.kind, "updated")])
                         => r \in db'[ItemTable(kind)]]_vars

\* in its second run the pipeline skipped movie 1, which the first run stored,
\* and the row is still there
C22_Witness ==
    /\ config.cleanup_stale_days = 0
    /\ upstream.anomaly = [kind |-> "movie", id |-> 1, what |-> "low_votes"]
    /\ upstream.since = 2
    /\ job.run_count = 2
    /\ job.pc = "record"
    /\ stats.movies_skipped = 1
    /\ stats.movies_inserted + stats.movies_updated = 0
    /\ \E r \in db.movies : r.tmdb_id = 1 /\ r.created_at = 1

(* ---------------------------------------------------------------------- *)
(* C23                                                                     *)
(* ---------------------------------------------------------------------- *)
\* C23: when the API key is absent no run record is created and the run counter
\* is not advanced.
C23_MissingCredentials ==
    ~config.api_key => (job.run_count = 0 /\ Len(mon.runs) = 0)

(* ---------------------------------------------------------------------- *)
(* C24                                                                     *)
(* ---------------------------------------------------------------------- *)
\* C24: run_etl_job never leaves by an exception, whatever fails inside it.
C24_FailureIsolation ==
    job.pc # "raised"

(* ---------------------------------------------------------------------- *)
(* C25                                                                     *)
(* ---------------------------------------------------------------------- *)
\* C25: after a shutdown request no new run starts, and a run in flight at the
\* request still reaches a terminal status: when the process has ended no run
\* record is left in status running.
C25_GracefulShutdown ==
    /\ sched.main \in {"stopping", "exited"} => ~sched.running
    /\ sched.main = "exited" =>
          \A i \in 1..Len(mon.runs) : mon.runs[i].status \in {"success", "failed"}

(* ---------------------------------------------------------------------- *)
(* C26                                                                     *)
(* ---------------------------------------------------------------------- *)
PersonFields == PersonColumns \ {"tmdb_person_id"}

\* C26: upserting a person over an existing row leaves every field, name and
\* profile image reference included, unchanged when it is stored non-null and the
\* new record carries null for it; no field goes from non-null to null.
C26_FillGaps ==
    PuUpdated =>
        \A f \in PersonFields :
            /\ (PuOld[f] # NULL /\ Incoming(pu.pd, f) = NULL) => PuNew[f] = PuOld[f]
            /\ PuOld[f] # NULL => PuNew[f] # NULL

(* ---------------------------------------------------------------------- *)
(* C27                                                                     *)
(* ---------------------------------------------------------------------- *)
\* C27: no HTTP attempt is issued while an item's transaction is open: the
\* detail, person and season fetches of an item are over when its transaction
\* begins, and no transaction is open when the next listing page is requested.
C27_NoHttpInTransaction ==
    /\ svc.txhttp = 0
    /\ ~svc.intx

\* a run stored a show with its cast, seasons and episodes after fetching the
\* show's detail, a person detail and a season detail
C27_Witness ==
    /\ job.pc = "record"
    /\ db.shows # {}
    /\ db.show_cast # {}
    /\ db.episodes # {}
    /\ svc.asked # <<>>
    /\ svc.http >= 6

(* ---------------------------------------------------------------------- *)
(* C28                                                                     *)
(* ---------------------------------------------------------------------- *)
\* the increase of the counter of the current media type in a step
Counted(what) == stats'[StatKey(it.kind, what)] - stats[StatKey(it.kind, what)]

\* C28: the counters follow the committed rows item by item: processing an item
\* raises the inserted counter by the number of item rows it committed as new,
\* counts an update only for a row that existed and is still stored, counts the
\* item in at most one of inserted, updated and skipped (the rest are the items
\* that raised), and counts the item once as processed.
C28_CountersMatchRows ==
    [][ItemStep =>
          /\ Counted("inserted")
                = Cardinality(ExternalIds(db', it.kind) \ ExternalIds(db, it.kind))
          /\ Counted("updated") > 0 => ExistedBefore
          /\ Counted("inserted") + Counted("updated") + Counted("skipped") \in {0, 1}
          /\ Counted("processed") = 1]_vars

(* ---------------------------------------------------------------------- *)
(* C29                                                                     *)
(* ---------------------------------------------------------------------- *)
\* C29: every failure is counted once in errors: processing an item raises the
\* counter by at most 1, also when the item's detail fetch has used up its
\* retries.
C29_ErrorsCountedOnce ==
    [][ItemStep => stats'.errors - stats.errors \in {0, 1}]_vars

(* ---------------------------------------------------------------------- *)
(* C30                                                                     *)
(* ---------------------------------------------------------------------- *)
\* C30: with monitoring enabled, once a run_etl_job whose start_run returned a
\* run id is over, every invocation so far has exactly one run record, and every
\* record has status success or failed and an end time.
C30_RunsSealed ==
    (config.enable_metrics /\ job.monitor_run_id # 0 /\ job.pc \in {"idle", "raised"}) =>
       /\ Len(mon.runs) = job.run_count
       /\ \A i \in 1..Len(mon.runs) :
             /\ mon.runs[i].status \in {"success", "failed"}
             /\ mon.runs[i].end_time # 0

====
